---- MODULE Spec2Model ----
(***************************************************************************)
(* A model of wPINQ (weighted Privacy Integrated Queries): the noisy       *)
(* `measure` operator with its shared error accumulator                    *)
(* (src/src/operators/measure.rs) and the incremental `join`               *)
(* (src/src/operators/join.rs), with `consolidate` from src/src/lib.rs,    *)
(* and the operators shave, min_max and flat_map of src/src/operators.     *)
(* One operator is built in a behaviour; the operator variables state,     *)
(* emitted, output and panicked belong to it.                              *)
(*                                                                         *)
(* Rust tuples are 0-based, TLA+ tuples 1-based: entry.0 is entry[1] and   *)
(* entry.1 is entry[2] throughout.                                         *)
(***************************************************************************)
EXTENDS Integers, Sequences, FiniteSets, TLC

VARIABLES
    cells,      \* the Rc<RefCell<i64>> accumulators the caller created
    shared,     \* the MeasurementStates built by measure(), in order
    ret,        \* the value returned by the last Measurement::observe
    state,      \* the operator's state; join: HashMap<K, (Vec<(V1,i64)>, Vec<(V2,i64)>)>
    emitted,    \* the records given to the session by the last update
    output,     \* the accumulated weight of every record ever given
    panicked    \* TRUE once an integer division by zero has panicked

measureVars == <<cells, shared, ret>>
joinVars == <<state, emitted, output, panicked>>
vars == <<cells, shared, ret, state, emitted, output, panicked>>

\* no measurement is built
MeasureIdle ==
    /\ cells = <<>>
    /\ shared = <<>>
    /\ ret = <<>>

\* no join is built
JoinIdle ==
    /\ state = <<>>
    /\ emitted = <<>>
    /\ output = <<>>
    /\ panicked = FALSE

(***************************************************************************)
(* Bounds of the model.                                                    *)
(***************************************************************************)
\* the elements D of a measured collection
Elems == {1, 2}
\* the element of a collection of type () (dataset.map(|_| ()))
Unit == {1}
\* the weights an update can carry
Deltas == {-1, 1}
\* the values laplace() can return
Noise == {-1, 0, 1}
\* the lengths of the batches a sink drains in one invocation
BatchSizes == {1, 2}
\* the same, and the values of laplace(), in the runs compared side by side
PairBatchSizes == {1}
PairNoise == {-1, 1}
\* the weight the measurement states may hold (sum of |synth_sum| + |truth_sum|)
MaxMass == 2
\* the keys K and the values V1, V2 of the joined collections
Keys == {1}
V1 == {1, 2}
V2 == {1, 2}
\* the largest |weight| a value of a key may hold in a join list
MaxJoinWeight == 3

(***************************************************************************)
(* Arithmetic.                                                             *)
(***************************************************************************)
\* i64::abs
Abs(x) == IF x < 0 THEN -x ELSE x

\* i64 division: rounds toward zero (b # 0; the panic on b = 0 is modelled
\* where the division is made)
TruncDiv(a, b) ==
    LET q == Abs(a) \div Abs(b)
    IN IF (a < 0) = (b < 0) THEN q ELSE -q

RECURSIVE SumAbs(_)
\* list.iter().map(|x| x.1.abs()).sum()
SumAbs(list) ==
    IF list = <<>> THEN 0 ELSE Abs(Head(list)[2]) + SumAbs(Tail(list))

(***************************************************************************)
(* consolidate (src/src/lib.rs): sort by datum, add the weight of each     *)
(* record into the next record of the same datum, drop weight 0.           *)
(* rank[d] is the position of datum d in the order (Ord) of its type.      *)
(***************************************************************************)
RECURSIVE InsertSorted(_, _, _)
InsertSorted(x, sorted, rank) ==
    IF sorted = <<>> THEN <<x>>
    ELSE IF rank[x[1]] < rank[Head(sorted)[1]] THEN <<x>> \o sorted
    ELSE <<Head(sorted)>> \o InsertSorted(x, Tail(sorted), rank)

RECURSIVE SortByDatum(_, _)
\* list.sort_unstable_by(|x,y| x.0.cmp(&y.0))
SortByDatum(list, rank) ==
    IF list = <<>> THEN <<>>
    ELSE InsertSorted(list[Len(list)],
                      SortByDatum(SubSeq(list, 1, Len(list) - 1), rank), rank)

\* a loop that folds nothing
Accumulate_nothing(list, index) == list

RECURSIVE Accumulate(_, _)
\* for index in 1 .. list.len(): fold list[index-1] into list[index]
Accumulate(list, index) ==
    IF index > Len(list) THEN list
    ELSE IF list[index - 1][1] = list[index][1]
         THEN Accumulate([list EXCEPT
                            ![index] = <<@[1], @[2] + list[index - 1][2]>>,
                            ![index - 1] = <<@[1], 0>>], index + 1)
         ELSE Accumulate(list, index + 1)

\* retain keeping the records of weight 0
Retain_zeros(list) == list

\* list.retain(|x| x.1 != 0)
Retain(list) == SelectSeq(list, LAMBDA x : x[2] # 0)

consolidate(list, rank) == Retain(Accumulate(SortByDatum(list, rank), 2))

\* the order of the measured elements
ElemRank == [d \in Elems |-> d]

(***************************************************************************)
(* MeasurementState (src/src/operators/measure.rs).                        *)
(*   total_error  : the accumulator this state was built on (index in      *)
(*                  cells)                                                 *)
(*   measurements : HashMap<D, (i64, i64)>, as a function on its keys      *)
(*   D            : the values of the element type D                         *)
(*   truth_sum, noise : history of each entry: the sum of the truth deltas *)
(*                  applied to it and the laplace() value it was inserted  *)
(*                  with.  The code keeps only their sum, in entry.1.      *)
(***************************************************************************)
\* MeasurementState::new, for a collection whose element type D has the values `D`
new(total, D) ==
    [total_error |-> total, D |-> D,
     measurements |-> <<>>, truth_sum |-> <<>>, noise |-> <<>>]

\* self.measurements.entry(element).or_insert((0, laplace())), laplace() = n
or_insert(ms, element, n) ==
    IF element \in DOMAIN ms.measurements THEN ms
    ELSE [ms EXCEPT !.measurements = (element :> <<0, n>>) @@ @,
                    !.truth_sum = (element :> 0) @@ @,
                    !.noise = (element :> n) @@ @]

\* update_truth without the retraction of the old error
update_truth_no_retraction(w, m, element, delta, n) ==
    LET ms == or_insert(w.shared[m], element, n)
        entry == ms.measurements[element]
        c == ms.total_error
        entry2 == <<entry[1], entry[2] + delta>>
        e2 == w.cells[c] + Abs(entry2[2] - entry2[1])
    IN [shared |-> [w.shared EXCEPT ![m] =
                      [ms EXCEPT !.measurements[element] = entry2,
                                 !.truth_sum[element] = @ + delta]],
        cells |-> [w.cells EXCEPT ![c] = e2]]

\* A world is [shared |-> the states, cells |-> the accumulators].
update_truth(w, m, element, delta, n) ==
    LET ms == or_insert(w.shared[m], element, n)
        entry == ms.measurements[element]
        c == ms.total_error
        e1 == w.cells[c] - Abs(entry[2] - entry[1])
        entry2 == <<entry[1], entry[2] + delta>>
        e2 == e1 + Abs(entry2[2] - entry2[1])
    IN [shared |-> [w.shared EXCEPT ![m] =
                      [ms EXCEPT !.measurements[element] = entry2,
                                 !.truth_sum[element] = @ + delta]],
        cells |-> [w.cells EXCEPT ![c] = e2]]

\* update_synth with the delta added to the wrong field of the entry
update_synth_wrong_field(w, m, element, delta, n) ==
    LET ms == or_insert(w.shared[m], element, n)
        entry == ms.measurements[element]
        c == ms.total_error
        e1 == w.cells[c] - Abs(entry[2] - entry[1])
        entry2 == <<entry[1], entry[2] + delta>>
        e2 == e1 + Abs(entry2[2] - entry2[1])
    IN [shared |-> [w.shared EXCEPT ![m] =
                      [ms EXCEPT !.measurements[element] = entry2]],
        cells |-> [w.cells EXCEPT ![c] = e2]]

\* update_synth without the retraction of the old error
update_synth_no_retraction(w, m, element, delta, n) ==
    LET ms == or_insert(w.shared[m], element, n)
        entry == ms.measurements[element]
        c == ms.total_error
        entry2 == <<entry[1] + delta, entry[2]>>
        e2 == w.cells[c] + Abs(entry2[2] - entry2[1])
    IN [shared |-> [w.shared EXCEPT ![m] =
                      [ms EXCEPT !.measurements[element] = entry2]],
        cells |-> [w.cells EXCEPT ![c] = e2]]

update_synth(w, m, element, delta, n) ==
    LET ms == or_insert(w.shared[m], element, n)
        entry == ms.measurements[element]
        c == ms.total_error
        e1 == w.cells[c] - Abs(entry[2] - entry[1])
        entry2 == <<entry[1] + delta, entry[2]>>
        e2 == e1 + Abs(entry2[2] - entry2[1])
    IN [shared |-> [w.shared EXCEPT ![m] =
                      [ms EXCEPT !.measurements[element] = entry2]],
        cells |-> [w.cells EXCEPT ![c] = e2]]

\* observe returning the synthetic count, entry.0
observe_wrong_field(w, m, element, n) ==
    LET ms == or_insert(w.shared[m], element, n)
    IN [shared |-> [w.shared EXCEPT ![m] = ms], cells |-> w.cells,
        value |-> ms.measurements[element][1]]

\* observe adding the error of the entry it inserts to the accumulator
observe_counts_error(w, m, element, n) ==
    LET ms == or_insert(w.shared[m], element, n)
        entry == ms.measurements[element]
        c == ms.total_error
    IN [shared |-> [w.shared EXCEPT ![m] = ms],
        cells |-> IF element \in DOMAIN w.shared[m].measurements THEN w.cells
                  ELSE [w.cells EXCEPT ![c] = @ + Abs(entry[2] - entry[1])],
        value |-> entry[2]]

\* MeasurementState::observe: the state after the call, and the value returned
observe(w, m, element, n) ==
    LET ms == or_insert(w.shared[m], element, n)
    IN [shared |-> [w.shared EXCEPT ![m] = ms], cells |-> w.cells,
        value |-> ms.measurements[element][2]]

RECURSIVE drain_truth(_, _, _, _)
\* for (datum, delta) in buffer.drain(..) { borrow.update_truth(datum, delta) }
drain_truth(w, m, buffer, nz) ==
    IF buffer = <<>> THEN w
    ELSE LET d == Head(buffer)[1]
             n == IF d \in DOMAIN nz THEN nz[d] ELSE 0
         IN drain_truth(update_truth(w, m, d, Head(buffer)[2], n), m, Tail(buffer), nz)

RECURSIVE drain_synth(_, _, _, _)
drain_synth(w, m, buffer, nz) ==
    IF buffer = <<>> THEN w
    ELSE LET d == Head(buffer)[1]
             n == IF d \in DOMAIN nz THEN nz[d] ELSE 0
         IN drain_synth(update_synth(w, m, d, Head(buffer)[2], n), m, Tail(buffer), nz)

\* one invocation of the MeasureTruth operator on the batch `buffer`
measure_truth(w, m, buffer, nz) == drain_truth(w, m, consolidate(buffer, ElemRank), nz)

\* one invocation of the MeasureSynth operator on the batch `buffer`
measure_synth(w, m, buffer, nz) == drain_synth(w, m, consolidate(buffer, ElemRank), nz)

(***************************************************************************)
(* The measurement state machine.                                          *)
(***************************************************************************)
World == [shared |-> shared, cells |-> cells]

\* the batches a sink over the element values D can be handed
Buffers(D) == UNION {[1..n -> D \X Deltas] : n \in BatchSizes}
PairBuffers == UNION {[1..n -> Elems \X Deltas] : n \in PairBatchSizes}

\* the elements of a batch that have no entry yet in state ms: each draws one
\* noise value that is kept
Created(ms, buffer) ==
    LET list == consolidate(buffer, ElemRank)
    IN {list[i][1] : i \in 1..Len(list)} \ DOMAIN ms.measurements

RECURSIVE SumOver(_, _)
\* the sum of f[x] over the x in S
SumOver(f, S) ==
    IF S = {} THEN 0
    ELSE LET x == CHOOSE y \in S : TRUE IN f[x] + SumOver(f, S \ {x})

\* the weight held by a state: the sum of |synth_sum| + |truth_sum| over its entries
Mass(ms) ==
    SumOver([d \in DOMAIN ms.measurements |->
                Abs(ms.measurements[d][1]) + Abs(ms.truth_sum[d])],
            DOMAIN ms.measurements)

\* the model follows the program while the weights stay within MaxMass
Bounded(sh) == SumOver([m \in DOMAIN sh |-> Mass(sh[m])], DOMAIN sh) <= MaxMass

\* after construction: one accumulator, measure() called on it once
InitMeasure ==
    /\ cells = <<0>>
    /\ shared = <<new(1, Elems)>>
    /\ ret = <<>>
    /\ JoinIdle

\* after construction: one accumulator, measure() called on it by two
\* collections, the second of type ()
InitShared ==
    /\ cells = <<0>>
    /\ shared = <<new(1, Elems), new(1, Unit)>>
    /\ ret = <<>>
    /\ JoinIdle

MeasureTruth(m, buffer, nz) ==
    LET w == measure_truth(World, m, buffer, nz)
    IN /\ Bounded(w.shared)
       /\ shared' = w.shared
       /\ cells' = w.cells
       /\ UNCHANGED ret
       /\ UNCHANGED joinVars

MeasureSynth(m, buffer, nz) ==
    LET w == measure_synth(World, m, buffer, nz)
    IN /\ Bounded(w.shared)
       /\ shared' = w.shared
       /\ cells' = w.cells
       /\ UNCHANGED ret
       /\ UNCHANGED joinVars

\* Measurement::observe
Observe(m, element, n) ==
    LET w == observe(World, m, element, n)
    IN /\ shared' = w.shared
       /\ cells' = w.cells
       /\ ret' = <<w.value>>
       /\ UNCHANGED joinVars

Truth ==
    \E m \in DOMAIN shared :
        \E buffer \in Buffers(shared[m].D) :
            \E nz \in [Created(shared[m], buffer) -> Noise] : MeasureTruth(m, buffer, nz)

Synth ==
    \E m \in DOMAIN shared :
        \E buffer \in Buffers(shared[m].D) :
            \E nz \in [Created(shared[m], buffer) -> Noise] : MeasureSynth(m, buffer, nz)

Observation ==
    \E m \in DOMAIN shared :
        \E element \in shared[m].D :
            \E n \in (IF element \in DOMAIN shared[m].measurements THEN {0} ELSE Noise) :
                Observe(m, element, n)

(***************************************************************************)
(* Two runs of one measurement side by side, for claims that compare runs: *)
(* each run has its own accumulator and state.  Both runs are handed the   *)
(* same truth batches and laplace() returns the same value for the same    *)
(* element in both; synth batches and observations are each run's own.     *)
(***************************************************************************)
InitPair ==
    /\ cells = <<0, 0>>
    /\ shared = <<new(1, Elems), new(2, Elems)>>
    /\ ret = <<>>
    /\ JoinIdle

\* laplace() gave the same value for every element inserted in both runs
SameDraws(sh) ==
    \A d \in DOMAIN sh[1].noise \cap DOMAIN sh[2].noise : sh[1].noise[d] = sh[2].noise[d]

\* the weight of the inputs of the two runs is within the bound: the truth input
\* (the same in both runs) and the two synth inputs
BoundedPair(sh) ==
    Mass(sh[1]) + SumOver([d \in DOMAIN sh[2].measurements |->
                              Abs(sh[2].measurements[d][1])],
                          DOMAIN sh[2].measurements) <= MaxMass

\* the same truth batch, handed to the truth sink of both runs
PairTruth(buffer, nz) ==
    LET w == measure_truth(measure_truth(World, 1, buffer, nz), 2, buffer, nz)
    IN /\ BoundedPair(w.shared)
       /\ SameDraws(w.shared)
       /\ shared' = w.shared
       /\ cells' = w.cells
       /\ UNCHANGED ret
       /\ UNCHANGED joinVars

\* a synth batch handed to the synth sink of run r alone
PairSynth(r, buffer, nz) ==
    LET w == measure_synth(World, r, buffer, nz)
    IN /\ BoundedPair(w.shared)
       /\ SameDraws(w.shared)
       /\ shared' = w.shared
       /\ cells' = w.cells
       /\ UNCHANGED ret
       /\ UNCHANGED joinVars

\* observe(element) called in run r alone
PairObserve(r, element, n) ==
    LET w == observe(World, r, element, n)
    IN /\ SameDraws(w.shared)
       /\ shared' = w.shared
       /\ cells' = w.cells
       /\ ret' = <<w.value>>
       /\ UNCHANGED joinVars

\* observe(element) called in both runs at the same point of the truth input
PairObserveBoth(element, n) ==
    LET w1 == observe(World, 1, element, n)
        w2 == observe(w1, 2, element, n)
    IN /\ SameDraws(w2.shared)
       /\ shared' = w2.shared
       /\ cells' = w2.cells
       /\ ret' = <<w1.value, w2.value>>
       /\ UNCHANGED joinVars

\* the values laplace() can return when `element` is inserted in state ms
Draws(ms, element) ==
    IF element \in DOMAIN ms.measurements THEN {0} ELSE PairNoise

PairTruthStep ==
    \E buffer \in PairBuffers :
        \E nz \in [Created(shared[1], buffer) \cup Created(shared[2], buffer) -> PairNoise] :
            PairTruth(buffer, nz)

PairSynthStep ==
    \E r \in DOMAIN shared :
        \E buffer \in PairBuffers :
            \E nz \in [Created(shared[r], buffer) -> PairNoise] : PairSynth(r, buffer, nz)

PairObserveStep ==
    \E r \in DOMAIN shared :
        \E element \in Elems :
            \E n \in Draws(shared[r], element) : PairObserve(r, element, n)

PairObserveBothStep ==
    \E element \in Elems :
        \E n \in Draws(shared[1], element) \cup Draws(shared[2], element) :
            PairObserveBoth(element, n)

(***************************************************************************)
(* join (src/src/operators/join.rs).                                       *)
(***************************************************************************)
\* the order of the values, and of the pairs (V1, V2) (tuples order
\* lexicographically)
ValRank == [v \in V1 \cup V2 |-> v]
PairRank ==
    [p \in V1 \X V2 |->
        Cardinality({q \in V1 \X V2 : q[1] < p[1] \/ (q[1] = p[1] /\ q[2] < p[2])})]

\* join_helper dividing with rounding toward negative infinity
join_helper_floor(list1, list2) ==
    LET total == SumAbs(list1) + SumAbs(list2)
        n2 == Len(list2)
    IN [out |-> [p \in 1..(Len(list1) * n2) |->
                    LET x == list1[((p - 1) \div n2) + 1]
                        y == list2[((p - 1) % n2) + 1]
                    IN <<<<x[1], y[1]>>,
                         IF total = 0 THEN 0 ELSE (x[2] * y[2]) \div total>>],
        panic |-> total = 0 /\ list1 # <<>> /\ list2 # <<>>]

\* join_helper scaling by the total of the first list alone
join_helper_total1(list1, list2) ==
    LET total == SumAbs(list1)
        n2 == Len(list2)
    IN [out |-> [p \in 1..(Len(list1) * n2) |->
                    LET x == list1[((p - 1) \div n2) + 1]
                        y == list2[((p - 1) % n2) + 1]
                    IN <<<<x[1], y[1]>>,
                         IF total = 0 THEN 0 ELSE TruncDiv(x[2] * y[2], total)>>],
        panic |-> total = 0 /\ list1 # <<>> /\ list2 # <<>>]

\* join_helper: the records pushed to `output`, list1 outer and list2 inner, and
\* whether a division panicked (the divisor is 0 and the loop body is reached)
join_helper(list1, list2) ==
    LET total == SumAbs(list1) + SumAbs(list2)
        n2 == Len(list2)
    IN [out |-> [p \in 1..(Len(list1) * n2) |->
                    LET x == list1[((p - 1) \div n2) + 1]
                        y == list2[((p - 1) % n2) + 1]
                    IN <<<<x[1], y[1]>>,
                         IF total = 0 THEN 0 ELSE TruncDiv(x[2] * y[2], total)>>],
        panic |-> total = 0 /\ list1 # <<>> /\ list2 # <<>>]

\* for pair in output_stash.iter_mut() { pair.1 *= -1; }
Negate(stash) == [i \in DOMAIN stash |-> <<stash[i][1], stash[i][2] * (-1)>>]

\* the body of the loop over one input (side 1: input1, side 2: input2) for the
\* record ((key, val), delta): the state after it, the records given to the
\* session, and whether it panicked
join_update(st, side, key, val, delta) ==
    LET st1 == IF key \in DOMAIN st THEN st ELSE (key :> <<<<>>, <<>>>>) @@ st
        entry == st1[key]
        old == join_helper(entry[1], entry[2])
        entry2 == IF side = 1
                  THEN <<consolidate(Append(entry[1], <<val, delta>>), ValRank), entry[2]>>
                  ELSE <<entry[1], consolidate(Append(entry[2], <<val, delta>>), ValRank)>>
        fresh == join_helper(entry2[1], entry2[2])
        stash == consolidate(Negate(old.out) \o fresh.out, PairRank)
    IN IF old.panic THEN [state |-> st1, emitted |-> <<>>, panic |-> TRUE]
       ELSE IF fresh.panic
       THEN [state |-> [st1 EXCEPT ![key] = entry2], emitted |-> <<>>, panic |-> TRUE]
       ELSE [state |-> [st1 EXCEPT ![key] = entry2],
             emitted |-> [i \in DOMAIN stash |-> <<<<key, stash[i][1]>>, stash[i][2]>>],
             panic |-> FALSE]

RECURSIVE Give(_, _)
\* the accumulated output after the records of `records` were given
Give(acc, records) ==
    IF records = <<>> THEN acc
    ELSE Give([acc EXCEPT ![Head(records)[1]] = @ + Head(records)[2]], Tail(records))

\* every weight of the lists of the state is within the bound
JoinBounded(st) ==
    \A k \in DOMAIN st : \A i \in {1, 2} : \A j \in DOMAIN st[k][i] :
        Abs(st[k][i][j][2]) <= MaxJoinWeight

InitJoin ==
    /\ state = <<>>
    /\ emitted = <<>>
    /\ output = [r \in Keys \X (V1 \X V2) |-> 0]
    /\ panicked = FALSE
    /\ MeasureIdle

\* one invocation of the Join operator with the record ((key, val), delta) on
\* input `side`; a longer batch is a sequence of these
Join(side, key, val, delta) ==
    LET r == join_update(state, side, key, val, delta)
    IN /\ ~panicked
       /\ JoinBounded(r.state)
       /\ state' = r.state
       /\ emitted' = r.emitted
       /\ output' = Give(output, r.emitted)
       /\ panicked' = r.panic
       /\ UNCHANGED measureVars

Input1 == \E key \in Keys, val \in V1, delta \in Deltas : Join(1, key, val, delta)

Input2 == \E key \in Keys, val \in V2, delta \in Deltas : Join(2, key, val, delta)

NextJoin == Input1 \/ Input2

SpecJoin == InitJoin /\ [][NextJoin]_vars

NextMeasure == Truth \/ Synth \/ Observation

SpecMeasure == InitMeasure /\ [][NextMeasure]_vars

SpecShared == InitShared /\ [][NextMeasure]_vars

NextPair == PairTruthStep \/ PairSynthStep \/ PairObserveStep \/ PairObserveBothStep

SpecPair == InitPair /\ [][NextPair]_vars

(***************************************************************************)
(* Properties of measure.                                                  *)
(***************************************************************************)
\* the error of element d in state ms: |truth_sum(d) + noise(d) - synth_sum(d)|
Err(ms, d) == Abs(ms.truth_sum[d] + ms.noise[d] - ms.measurements[d][1])

\* the sum of the errors of all entries of all states built on accumulator c
TotalErr(c) ==
    SumOver([m \in DOMAIN shared |->
                IF shared[m].total_error = c
                THEN SumOver([d \in DOMAIN shared[m].measurements |-> Err(shared[m], d)],
                             DOMAIN shared[m].measurements)
                ELSE 0],
            DOMAIN shared)

\* C1: after any sequence of truth updates, synth updates and observe calls on
\* the measurements attached to one accumulator E, E equals the sum over every
\* measurement and every element d with an entry of
\* |truth_sum(d) + noise(d) - synth_sum(d)|.
C1_AccumulatorIsTotalError == \A c \in DOMAIN cells : cells[c] = TotalErr(c)

\* What the code keeps instead: the error of an entry is counted from the
\* moment of its insertion, so |noise(d)| is missing from E for every entry.
AccumulatorOmitsNoise ==
    \A c \in DOMAIN cells :
        cells[c] = TotalErr(c) -
            SumOver([m \in DOMAIN shared |->
                        IF shared[m].total_error = c
                        THEN SumOver([d \in DOMAIN shared[m].noise |->
                                         Abs(shared[m].noise[d])],
                                     DOMAIN shared[m].noise)
                        ELSE 0],
                    DOMAIN shared)

\* C2: observe(d) returns truth_sum(d) + noise(d), where noise(d) is drawn when
\* d's entry is created and never changes: entry.1 - truth_sum(d) is the value
\* drawn at insertion in every state, no step changes it for an existing entry,
\* and every observe step returns truth_sum(d) + noise(d).
C2_ObserveIsTruthPlusFixedNoise ==
    [][ /\ \A m \in DOMAIN shared' : \A d \in DOMAIN shared'[m].measurements :
              shared'[m].measurements[d][2] - shared'[m].truth_sum[d]
                  = shared'[m].noise[d]
        /\ \A m \in DOMAIN shared : \A d \in DOMAIN shared[m].measurements :
              /\ d \in DOMAIN shared'[m].measurements
              /\ shared'[m].measurements[d][2] - shared'[m].truth_sum[d]
                    = shared[m].measurements[d][2] - shared[m].truth_sum[d]
        /\ \A m \in DOMAIN shared : \A d \in shared[m].D : \A n \in Noise :
              Observe(m, d, n) =>
                  ret' = <<shared'[m].truth_sum[d] + shared'[m].noise[d]>>
      ]_vars

\* an element with truth updates, synth updates and non-zero noise was observed
C2_Witness ==
    \E d \in DOMAIN shared[1].measurements :
        /\ shared[1].truth_sum[d] # 0
        /\ shared[1].noise[d] # 0
        /\ shared[1].measurements[d][1] # 0
        /\ ret = <<shared[1].truth_sum[d] + shared[1].noise[d]>>

\* C3: the value returned by observe(d) is never changed by synth updates: two
\* runs with the same truth updates and the same noise draws but different
\* synth updates and observations of other elements return the same value from
\* observe(d), and no step other than a truth update to d changes the value
\* observe(d) returns.
C3_ObserveIndependentOfSynth ==
    [][ /\ Len(ret') = 2 => ret'[1] = ret'[2]
        /\ \A d \in DOMAIN shared'[1].measurements \cap DOMAIN shared'[2].measurements :
              shared'[1].measurements[d][2] = shared'[2].measurements[d][2]
        /\ \A r \in DOMAIN shared : \A d \in DOMAIN shared[r].measurements :
              shared'[r].truth_sum[d] = shared[r].truth_sum[d] =>
                  shared'[r].measurements[d][2] = shared[r].measurements[d][2]
      ]_vars

\* both runs observed an element with truth updates whose synth sums differ
C3_Witness ==
    /\ Len(ret) = 2
    /\ \E d \in DOMAIN shared[1].measurements \cap DOMAIN shared[2].measurements :
          /\ shared[1].truth_sum[d] # 0
          /\ shared[1].measurements[d][1] # shared[2].measurements[d][1]
          /\ ret[1] = shared[1].measurements[d][2]
    /\ DOMAIN shared[1].measurements # DOMAIN shared[2].measurements

\* C4: in any state of a measurement used alone on its accumulator in which
\* synth_sum(d) = truth_sum(d) + noise(d) for every element with an entry, E = 0.
C4_ConvergedErrorIsZero ==
    (/\ Len(shared) = 1
     /\ \A d \in DOMAIN shared[1].measurements :
           shared[1].measurements[d][1] = shared[1].truth_sum[d] + shared[1].noise[d])
        => cells[shared[1].total_error] = 0

\* C5: observe(d) never changes E nor the truth_sum or synth_sum of any
\* element; the only state it may change is to create d's entry with sums 0
\* and a fresh noise value.
C5_ObserveFrame ==
    [][ \A m \in DOMAIN shared : \A d \in shared[m].D : \A n \in Noise :
          Observe(m, d, n) =>
              /\ cells' = cells
              /\ \A k \in DOMAIN shared : k # m => shared'[k] = shared[k]
              /\ \A e \in DOMAIN shared[m].measurements :
                    /\ e \in DOMAIN shared'[m].measurements
                    /\ shared'[m].measurements[e] = shared[m].measurements[e]
                    /\ shared'[m].truth_sum[e] = shared[m].truth_sum[e]
              /\ DOMAIN shared'[m].measurements = DOMAIN shared[m].measurements \cup {d}
              /\ d \notin DOMAIN shared[m].measurements =>
                    /\ shared'[m].measurements[d] = <<0, n>>
                    /\ shared'[m].truth_sum[d] = 0
      ]_vars

\* observe inserted an entry (sums 0, non-zero noise) while E was not 0
C5_Witness ==
    /\ cells[1] # 0
    /\ \E d \in DOMAIN shared[1].measurements :
          /\ shared[1].measurements[d] = <<0, shared[1].noise[d]>>
          /\ shared[1].truth_sum[d] = 0
          /\ shared[1].noise[d] # 0
          /\ ret = <<shared[1].noise[d]>>

\* C6: for an element d with truth_sum + noise = v and synth_sum = 0, the synth
\* update (d, v) brings d's error to 0 and lowers E by |v|, and the synth update
\* (d, -v) after it restores E; any synth update followed by its negation
\* leaves E unchanged.
C6_SynthUpdateAndNegation ==
    \A m \in DOMAIN shared : \A d \in shared[m].D : \A n \in Noise :
        LET c == shared[m].total_error
            nz == (d :> n)
        IN /\ \A delta \in Deltas :
                measure_synth(measure_synth(World, m, <<<<d, delta>>>>, nz),
                              m, <<<<d, -delta>>>>, nz).cells = cells
           /\ (d \in DOMAIN shared[m].measurements /\ shared[m].measurements[d][1] = 0) =>
                LET v == shared[m].measurements[d][2]
                    w1 == measure_synth(World, m, <<<<d, v>>>>, nz)
                    w2 == measure_synth(w1, m, <<<<d, -v>>>>, nz)
                IN /\ w1.cells[c] = cells[c] - Abs(v)
                   /\ Err(w1.shared[m], d) = 0
                   /\ w2.cells = cells

\* one element waits with synth_sum = 0 and v # 0, another has been brought to
\* synth_sum = v # 0 by synth updates
C6_Witness ==
    \E d, e \in DOMAIN shared[1].measurements :
        /\ shared[1].measurements[d][1] = 0
        /\ shared[1].measurements[d][2] # 0
        /\ shared[1].measurements[e][1] # 0
        /\ shared[1].measurements[e][1] = shared[1].measurements[e][2]
(***************************************************************************)
(* Properties of join.                                                     *)
(***************************************************************************)
\* whether value v has a record in the list, and its weight there
Present(list, v) == \E i \in DOMAIN list : list[i][1] = v
WeightOf(list, v) == list[CHOOSE i \in DOMAIN list : list[i][1] = v][2]

\* T: the sum of |w| over L1 plus the sum of |w| over L2 of key k
Total(k) == SumAbs(state[k][1]) + SumAbs(state[k][2])

\* (v1, v2) is in L1 x L2 of key k
Paired(k, v1, v2) ==
    k \in DOMAIN state /\ Present(state[k][1], v1) /\ Present(state[k][2], v2)

\* C7: after any sequence of updates to the two inputs of join, for every key
\* k the accumulated output weight of (k,(v1,v2)) equals floor(w1*w2 / T) for
\* every (v1,w1) in L1 and (v2,w2) in L2, also when w1*w2 is negative, and
\* every pair not in L1 x L2 has accumulated weight 0.
C7_OutputIsFloorOfProduct ==
    \A k \in Keys : \A v1 \in V1 : \A v2 \in V2 :
        output[<<k, <<v1, v2>>>>] =
            IF Paired(k, v1, v2)
            THEN (WeightOf(state[k][1], v1) * WeightOf(state[k][2], v2)) \div Total(k)
            ELSE 0

\* C7 as amended: the accumulated output weight of (k,(v1,v2)) equals w1*w2 / T
\* rounded toward zero (the floor of the quotient when w1*w2 >= 0, its ceiling
\* when w1*w2 < 0); every pair not in L1 x L2 has accumulated weight 0.
C7_OutputIsTruncatedProduct ==
    \A k \in Keys : \A v1 \in V1 : \A v2 \in V2 :
        output[<<k, <<v1, v2>>>>] =
            IF Paired(k, v1, v2)
            THEN TruncDiv(WeightOf(state[k][1], v1) * WeightOf(state[k][2], v2), Total(k))
            ELSE 0

\* a pair of negative product holds a non-zero weight that is not the floor,
\* after a retraction changed the lists
C7_Witness ==
    \E k \in Keys : \E v1 \in V1 : \E v2 \in V2 :
        /\ Paired(k, v1, v2)
        /\ output[<<k, <<v1, v2>>>>] < 0
        /\ output[<<k, <<v1, v2>>>>] #
              (WeightOf(state[k][1], v1) * WeightOf(state[k][2], v2)) \div Total(k)
        /\ Len(state[k][1]) + Len(state[k][2]) > 2

\* C8: join is affine: a single update ((k,v), delta) to either input causes
\* emitted output records whose absolute weights sum to at most |delta|.
C8_JoinIsAffine ==
    [][ \A side \in {1, 2} : \A key \in Keys : \A val \in V1 \cup V2 :
          \A delta \in Deltas :
            Join(side, key, val, delta) => SumAbs(emitted') <= Abs(delta)
      ]_vars

\* C9: in every reachable join state, for every key the sum of the absolute
\* weights of pairs(L1, L2) is at most min(sum of |w| over L1, sum of |w| over L2).
C9_PairsWithinSmallerTotal ==
    \A k \in DOMAIN state :
        LET a == SumAbs(state[k][1])
            b == SumAbs(state[k][2])
        IN SumAbs(join_helper(state[k][1], state[k][2]).out) <= (IF a < b THEN a ELSE b)

\* a key whose pairs hold weights of both signs, of absolute sum 2 or more
C9_Witness ==
    \E k \in DOMAIN state :
        LET pairs == join_helper(state[k][1], state[k][2]).out
        IN /\ SumAbs(pairs) >= 2
           /\ \E i \in DOMAIN pairs : pairs[i][2] < 0
           /\ \E i \in DOMAIN pairs : pairs[i][2] > 0
           /\ output[<<k, pairs[1][1]>>] = pairs[1][2]

\* C10: join never fails with a division by zero: no update panics, and an
\* update to one side of a key whose other side is empty (T = 0 included, as
\* for a key whose values were all retracted) emits nothing.
C10_NoDivisionByZero ==
    [][ /\ ~panicked'
        /\ \A side \in {1, 2} : \A key \in Keys : \A val \in V1 \cup V2 :
             \A delta \in Deltas :
               (/\ Join(side, key, val, delta)
                /\ \/ key \notin DOMAIN state
                   \/ state[key][3 - side] = <<>>) => emitted' = <<>>
      ]_vars

\* every value of a key was retracted on both sides: the key is still in the
\* map with two empty lists, nothing was emitted and nothing panicked
C10_Witness ==
    \E k \in DOMAIN state :
        /\ state[k] = <<<<>>, <<>>>>
        /\ emitted = <<>>
        /\ ~panicked

(***************************************************************************)
(* shave (src/src/operators/shave.rs).  The operator variables are used    *)
(* by one operator at a time: for shave, `state` is                        *)
(*   [width, weight, spinning]                                             *)
(* where width is the parameter of shave(), weight the HashMap<D, i64>     *)
(* called `state` in the code, and spinning tells that a loop of the       *)
(* handler can never end; `emitted` holds the slices given for the last    *)
(* batch, `output` the accumulated weight of every slice (no entry for     *)
(* weight 0) and `panicked` a division by zero.                            *)
(***************************************************************************)
\* the widths shave is called with
Widths == {-1, 0, 1, 2, 3}
\* the weights of the records of a batch
ShaveDeltas == {-3, -2, -1, 1, 2, 3}
\* the weights of the records of a batch of two records
ShaveBatchDeltas == {-1, 1, 2}
\* the largest absolute stored weight explored
MaxShaveWeight == 4

\* std::cmp::min, std::cmp::max
min(a, b) == IF a < b THEN a ELSE b
max(a, b) == IF a > b THEN a ELSE b

\* `index as usize` on a 64-bit target: <<c, r>> stands for c * 2^64 + r, so a
\* negative index wraps to 2^64 + index
as_usize(index) == IF index >= 0 THEN <<0, index>> ELSE <<1, index>>

\* the sum of the weights of a list of records
RECURSIVE SumWeights(_)
SumWeights(list) ==
    IF list = <<>> THEN 0 ELSE Head(list)[2] + SumWeights(Tail(list))

\* an increment loop that gives the whole delta as one slice
increment_one_slice(width, weight, datum, delta) ==
    IF delta <= 0
    THEN [weight |-> weight, out |-> <<>>, panic |-> FALSE, spin |-> FALSE]
    ELSE IF width = 0
    THEN [weight |-> weight, out |-> <<>>, panic |-> TRUE, spin |-> FALSE]
    ELSE [weight |-> weight + delta,
          out |-> <<<<<<datum, as_usize(TruncDiv(weight, width))>>, delta>>>>,
          panic |-> FALSE, spin |-> FALSE]

\* a decrement loop that gives the whole delta as one slice
decrement_one_slice(width, weight, datum, delta) ==
    IF delta >= 0
    THEN [weight |-> weight, out |-> <<>>, panic |-> FALSE, spin |-> FALSE]
    ELSE IF width = 0
    THEN [weight |-> weight, out |-> <<>>, panic |-> TRUE, spin |-> FALSE]
    ELSE [weight |-> weight + delta,
          out |-> <<<<<<datum, as_usize(TruncDiv(weight - 1, width))>>, delta>>>>,
          panic |-> FALSE, spin |-> FALSE]

\* `while delta > 0 { .. }`.  A change that is not positive leaves delta
\* positive for ever (for width > 0 the change is always positive; for
\* width < 0 it is always negative): the loop gives that slice and spins.
RECURSIVE increment(_, _, _, _)
increment(width, weight, datum, delta) ==
    IF delta <= 0
    THEN [weight |-> weight, out |-> <<>>, panic |-> FALSE, spin |-> FALSE]
    ELSE IF width = 0
    THEN [weight |-> weight, out |-> <<>>, panic |-> TRUE, spin |-> FALSE]
    ELSE LET index == TruncDiv(weight, width)
             change == min((index + 1) * width - weight, delta)
             slice == <<<<datum, as_usize(index)>>, change>>
         IN IF change <= 0
            THEN [weight |-> weight + change, out |-> <<slice>>,
                  panic |-> FALSE, spin |-> TRUE]
            ELSE LET rest == increment(width, weight + change, datum, delta - change)
                 IN [rest EXCEPT !.out = <<slice>> \o @]

\* `while delta < 0 { .. }`.  A change that is not negative leaves delta
\* negative, and the next change is 0 (the weight is then index * width with
\* index <= 0, which the truncating division maps to itself): the loop gives
\* that slice and spins.
RECURSIVE decrement(_, _, _, _)
decrement(width, weight, datum, delta) ==
    IF delta >= 0
    THEN [weight |-> weight, out |-> <<>>, panic |-> FALSE, spin |-> FALSE]
    ELSE IF width = 0
    THEN [weight |-> weight, out |-> <<>>, panic |-> TRUE, spin |-> FALSE]
    ELSE LET index == TruncDiv(weight - 1, width)
             change == max((index * width) - weight, delta)
             slice == <<<<datum, as_usize(index)>>, change>>
         IN IF change >= 0
            THEN [weight |-> weight + change, out |-> <<slice>>,
                  panic |-> FALSE, spin |-> TRUE]
            ELSE LET rest == decrement(width, weight + change, datum, delta - change)
                 IN [rest EXCEPT !.out = <<slice>> \o @]

\* the body of `for (datum, mut delta) in data`: the entry of datum is
\* created with weight 0, then the two loops run (the second only when the
\* first has ended, with delta <= 0)
shave_update(st, datum, delta) ==
    LET weight == IF datum \in DOMAIN st.weight THEN st.weight[datum] ELSE 0
        r == IF delta > 0 THEN increment(st.width, weight, datum, delta)
             ELSE decrement(st.width, weight, datum, delta)
    IN [state |-> [st EXCEPT !.weight = (datum :> r.weight) @@ @,
                             !.spinning = r.spin],
        out |-> r.out,
        panic |-> r.panic]

\* the updates of a sorted batch in order; nothing runs after a panic or
\* inside a loop that never ends
RECURSIVE shave_batch(_, _)
shave_batch(st, data) ==
    IF data = <<>> THEN [state |-> st, out |-> <<>>, panic |-> FALSE]
    ELSE LET r == shave_update(st, Head(data)[1], Head(data)[2])
         IN IF r.panic \/ r.state.spinning THEN r
            ELSE LET rest == shave_batch(r.state, Tail(data))
                 IN [rest EXCEPT !.out = r.out \o @]

\* MergeSorter::push of one batch followed by finish_into: the batch sorted
\* by datum, equal data added up, weight 0 dropped
push_batch(buffer) == consolidate(buffer, ElemRank)

\* the accumulated collection after `records` were given
RECURSIVE Collect(_, _)
Collect(acc, records) ==
    IF records = <<>> THEN acc
    ELSE LET key == Head(records)[1]
             old == IF key \in DOMAIN acc THEN acc[key] ELSE 0
             sum == old + Head(records)[2]
             others == [k \in DOMAIN acc \ {key} |-> acc[k]]
         IN Collect(IF sum = 0 THEN others ELSE (key :> sum) @@ others,
                    Tail(records))

\* the batches: one record, or two records in either arrival order
ShaveBuffers ==
    [1..1 -> Elems \X ShaveDeltas] \cup [1..2 -> Elems \X ShaveBatchDeltas]

\* every stored weight is within the bound
ShaveBounded(st) ==
    \A d \in DOMAIN st.weight : Abs(st.weight[d]) <= MaxShaveWeight

InitShave ==
    /\ state \in {[width |-> w, weight |-> <<>>, spinning |-> FALSE] : w \in Widths}
    /\ emitted = <<>>
    /\ output = <<>>
    /\ panicked = FALSE
    /\ MeasureIdle

\* one invocation of the Shave operator with one batch of one time
Shave(buffer) ==
    /\ ~panicked
    /\ ~state.spinning
    /\ \E r \in {shave_batch(state, push_batch(buffer))} :
         /\ ShaveBounded(r.state)
         /\ state' = r.state
         /\ emitted' = r.out
         /\ output' = Collect(output, r.out)
         /\ panicked' = r.panic
    /\ UNCHANGED measureVars

ShaveStep == \E buffer \in ShaveBuffers : Shave(buffer)

NextShave == ShaveStep

SpecShave == InitShave /\ [][NextShave]_vars

\* the slices of `records` that belong to datum d
SlicesOf(records, d) == SelectSeq(records, LAMBDA x : x[1][1] = d)

\* the stored weight of d
StoredWeight(st, d) == IF d \in DOMAIN st.weight THEN st.weight[d] ELSE 0

\* the updates shave_update is applied to
ShaveUpdates == Elems \X ShaveDeltas

\* an update can be applied: the operator has neither panicked nor hung
ShaveLive == ~panicked /\ ~state.spinning

\* C11: shave conservation: for every consolidated update (d, delta) applied
\* in a reachable state with width > 0, the slices emitted for it have weights
\* that sum to delta, absolute weights that sum to |delta|, and the stored
\* weight of d grows by exactly delta.
C11_ShaveConservation ==
    (ShaveLive /\ state.width > 0) =>
        \A u \in ShaveUpdates :
            LET r == shave_update(state, u[1], u[2])
            IN /\ ~r.state.spinning
               /\ SumWeights(r.out) = u[2]
               /\ SumAbs(r.out) = Abs(u[2])
               /\ StoredWeight(r.state, u[1]) = StoredWeight(state, u[1]) + u[2]

\* C12: every slice has a weight in (0, width] for a positive update and in
\* [-width, 0) for a negative one, whatever the stored weight (zero and
\* negative included).
C12_SliceWithinWidth ==
    (ShaveLive /\ state.width > 0) =>
        \A u \in ShaveUpdates :
            LET r == shave_update(state, u[1], u[2])
            IN \A j \in DOMAIN r.out :
                 IF u[2] > 0
                 THEN 0 < r.out[j][2] /\ r.out[j][2] <= state.width
                 ELSE 0 - state.width <= r.out[j][2] /\ r.out[j][2] < 0

\* the accumulated weight of the slice (d, i)
Slice(d, i) ==
    IF <<d, as_usize(i)>> \in DOMAIN output THEN output[<<d, as_usize(i)>>] ELSE 0

\* the indices a stored weight within the bound can fill, and one more
SliceIndices == 0 .. (MaxShaveWeight + 1)

\* C13: when the cumulative weight of d is w >= 0 (and no retraction took it
\* below 0, which is the only way the operator hangs), the accumulated output
\* of (d, i) is min(width, max(0, w - i*width)) for every index i >= 0, and d
\* has no other slice; w = k*width gives k slices of weight width at 0..k-1.
C13_AccumulatedSlices ==
    (ShaveLive /\ state.width > 0) =>
        \A d \in DOMAIN state.weight :
            state.weight[d] >= 0 =>
               /\ \A i \in SliceIndices :
                     Slice(d, i) = min(state.width,
                                       max(0, state.weight[d] - i * state.width))
               /\ \A key \in DOMAIN output :
                     key[1] = d => (key[2][1] = 0 /\ key[2][2] \in SliceIndices)

\* a retraction has left a datum with one full slice and one partial slice
C13_Witness ==
    /\ ShaveLive
    /\ state.width = 2
    /\ \E d \in DOMAIN state.weight :
         /\ state.weight[d] = 3
         /\ Slice(d, 0) = 2
         /\ Slice(d, 1) = 1
         /\ \E j \in DOMAIN emitted : emitted[j][1][1] = d /\ emitted[j][2] < 0

\* a list in the opposite order
Reversed(list) == [j \in DOMAIN list |-> list[Len(list) + 1 - j]]

\* C14: from weight[d] = 0 an update (d, w), w > 0, gives slices in ascending
\* index order from 0, and a following update (d, -w) gives the negation of
\* each of them in descending index order, taking weight[d] back to 0 and
\* the accumulated output of d back to empty.
C14_RetractionMirrorsInsertion ==
    (ShaveLive /\ state.width > 0) =>
        \A u \in ShaveUpdates :
            (u[2] > 0 /\ StoredWeight(state, u[1]) = 0) =>
                LET up == shave_update(state, u[1], u[2])
                    down == shave_update(up.state, u[1], 0 - u[2])
                    acc == Collect(Collect(output, up.out), down.out)
                IN /\ \A j \in DOMAIN up.out :
                        up.out[j][1] = <<u[1], <<0, j - 1>>>> /\ up.out[j][2] > 0
                   /\ ~down.state.spinning
                   /\ down.out = Reversed(Negate(up.out))
                   /\ StoredWeight(down.state, u[1]) = 0
                   /\ \A key \in DOMAIN acc : key[1] # u[1]

\* the last batch retracted, highest index first, the two slices of a datum
\* whose weight is back to 0 and whose accumulated output is empty
C14_Witness ==
    /\ ShaveLive
    /\ state.width > 0
    /\ \E d \in DOMAIN state.weight :
         /\ state.weight[d] = 0
         /\ Len(emitted) = 2
         /\ emitted[1][1] = <<d, <<0, 1>>>> /\ emitted[1][2] < 0
         /\ emitted[2][1] = <<d, <<0, 0>>>> /\ emitted[2][2] < 0
         /\ \A key \in DOMAIN output : key[1] # d

\* C15: with a width that is not positive, processing an update aborts:
\* every batch handled by shave ends in a panic.
C15_NonPositiveWidthIsFatal ==
    [][ state.width <= 0 => panicked' ]_vars

(***************************************************************************)
(* min_max (src/src/operators/min_max.rs).  For min_max, `state` is the    *)
(* HashMap<D, (i64, i64)> of the two stored weights of every key,          *)
(* `emitted` is [min, max]: the records given to the two sessions for the  *)
(* last update, and `output` is [min, max]: the accumulated weight of      *)
(* every record given on each output.                                      *)
(***************************************************************************)
\* the weights of the updates
MinMaxDeltas == {-2, -1, 0, 1, 2, 3}
\* the largest absolute stored weight explored
MaxMinMaxWeight == 3

\* state.entry(key).or_insert((0, 0))
entry_or_zero(st, key) == IF key \in DOMAIN st THEN st[key] ELSE <<0, 0>>

\* the loop body without the tests `!= 0`
min_max_update_unfiltered(st, side, key, delta) ==
    LET entry == entry_or_zero(st, key)
        min_before == min(entry[1], entry[2])
        max_before == max(entry[1], entry[2])
        entry2 == IF side = 1 THEN <<entry[1] + delta, entry[2]>>
                  ELSE <<entry[1], entry[2] + delta>>
        min_change == min_before - min(entry2[1], entry2[2])
        max_change == max_before - max(entry2[1], entry2[2])
    IN [state |-> (key :> entry2) @@ st,
        min |-> <<<<key, min_change>>>>,
        max |-> <<<<key, max_change>>>>]

\* the body of `for (key, delta) in data.drain(..)` for input `side`:
\* min_change and max_change start at the min and max of the entry, the
\* entry is updated, and the new min and max are subtracted from them
min_max_update(st, side, key, delta) ==
    LET entry == entry_or_zero(st, key)
        min_before == min(entry[1], entry[2])
        max_before == max(entry[1], entry[2])
        entry2 == IF side = 1 THEN <<entry[1] + delta, entry[2]>>
                  ELSE <<entry[1], entry[2] + delta>>
        min_change == min_before - min(entry2[1], entry2[2])
        max_change == max_before - max(entry2[1], entry2[2])
    IN [state |-> (key :> entry2) @@ st,
        min |-> IF min_change # 0 THEN <<<<key, min_change>>>> ELSE <<>>,
        max |-> IF max_change # 0 THEN <<<<key, max_change>>>> ELSE <<>>]

\* every stored weight is within the bound
MinMaxBounded(st) ==
    \A k \in DOMAIN st : Abs(st[k][1]) <= MaxMinMaxWeight /\ Abs(st[k][2]) <= MaxMinMaxWeight

InitMinMax ==
    /\ state = <<>>
    /\ emitted = [min |-> <<>>, max |-> <<>>]
    /\ output = [min |-> <<>>, max |-> <<>>]
    /\ panicked = FALSE
    /\ MeasureIdle

\* one invocation of the MinMax operator with the record (key, delta) on
\* input `side`; a longer batch is a sequence of these
MinMax(side, key, delta) ==
    \E r \in {min_max_update(state, side, key, delta)} :
        /\ MinMaxBounded(r.state)
        /\ state' = r.state
        /\ emitted' = [min |-> r.min, max |-> r.max]
        /\ output' = [min |-> Collect(output.min, r.min),
                      max |-> Collect(output.max, r.max)]
        /\ UNCHANGED panicked
        /\ UNCHANGED measureVars

MinMaxInput1 == \E key \in Elems, delta \in MinMaxDeltas : MinMax(1, key, delta)

MinMaxInput2 == \E key \in Elems, delta \in MinMaxDeltas : MinMax(2, key, delta)

NextMinMax == MinMaxInput1 \/ MinMaxInput2

SpecMinMax == InitMinMax /\ [][NextMinMax]_vars

\* the record (k, w) as a stream holds it: nothing for w = 0
RecordOf(k, w) == IF w # 0 THEN <<<<k, w>>>> ELSE <<>>

\* the accumulated weight of d in a collection
Accumulated(acc, d) == IF d \in DOMAIN acc THEN acc[d] ELSE 0

\* C16: for every update (k, delta) to either side, the min output is given
\* (k, minAfter - minBefore) and the max output (k, maxAfter - maxBefore),
\* Before and After being the min and max of the two stored weights of k
\* before and after delta is applied (nothing is given for a difference 0).
C16_EmitsAfterMinusBefore ==
    [][ \A side \in {1, 2} : \A key \in Elems : \A delta \in MinMaxDeltas :
          MinMax(side, key, delta) =>
             LET before == entry_or_zero(state, key)
                 after == entry_or_zero(state', key)
             IN /\ emitted'.min = RecordOf(key, min(after[1], after[2])
                                                 - min(before[1], before[2]))
                /\ emitted'.max = RecordOf(key, max(after[1], after[2])
                                                 - max(before[1], before[2]))
      ]_vars

\* C17: min_max identity: for every element d, the accumulated weight of d on
\* the min output plus that on the max output is the sum of the accumulated
\* weights of d on the two inputs.
C17_MinPlusMaxIsSumOfInputs ==
    \A d \in Elems :
        Accumulated(output.min, d) + Accumulated(output.max, d)
            = entry_or_zero(state, d)[1] + entry_or_zero(state, d)[2]

\* C18: min_max gives no record of weight 0: an update that leaves
\* min(w1, w2) unchanged gives nothing on the min output, one that leaves
\* max(w1, w2) unchanged gives nothing on the max output.
C18_NoZeroWeightRecord ==
    [][ /\ \A j \in DOMAIN emitted'.min : emitted'.min[j][2] # 0
        /\ \A j \in DOMAIN emitted'.max : emitted'.max[j][2] # 0
        /\ \A key \in Elems :
             LET before == entry_or_zero(state, key)
                 after == entry_or_zero(state', key)
             IN /\ min(after[1], after[2]) = min(before[1], before[2])
                      => \A j \in DOMAIN emitted'.min : emitted'.min[j][1] # key
                /\ max(after[1], after[2]) = max(before[1], before[2])
                      => \A j \in DOMAIN emitted'.max : emitted'.max[j][1] # key
      ]_vars

\* the last update moved the max of a key and not its min: one record on
\* the max output, none on the min output
C18_Witness ==
    /\ DOMAIN emitted = {"min", "max"}
    /\ emitted.min = <<>>
    /\ emitted.max # <<>>
    /\ \E k \in DOMAIN state : state[k][1] > 0 /\ state[k][2] > 0

(***************************************************************************)
(* flat_map (src/src/operators/flat_map.rs).  For flat_map, `state` is     *)
(* [stash, drained]: the Vec `stash` the operator keeps between records,   *)
(* and the batch the last invocation drained (kept to state properties);   *)
(* `emitted` holds the records given for that batch, `output` the          *)
(* accumulated weight of every record given and `panicked` a division by   *)
(* zero.                                                                   *)
(***************************************************************************)
\* the input data: datum d is mapped to d output items
FlatMapData == {0, 1, 3}
\* the weights of the input records
FlatMapDeltas == {-4, -1, 4}
\* the number of records of a batch
FlatMapBatchSizes == {1, 2}
\* the largest absolute accumulated output weight explored
MaxFlatMapWeight == 4

\* the caller's function: f(d) = [1, .., d], so f(0) is empty and the items
\* of different data overlap
function(datum) == [i \in 1..datum |-> i]

\* the loop body with the quotient rounded toward negative infinity
flat_map_record_floor(stash, datum, delta) ==
    LET stash1 == stash \o function(datum)
        length == Len(stash1)
    IN [stash |-> <<>>,
        out |-> [i \in 1..length |-> <<stash1[i], delta \div length>>],
        panic |-> FALSE]

\* the loop body with the quotient computed before the loop over the stash
flat_map_record_divide_first(stash, datum, delta) ==
    LET stash1 == stash \o function(datum)
        length == Len(stash1)
    IN IF length = 0 THEN [stash |-> stash1, out |-> <<>>, panic |-> TRUE]
       ELSE [stash |-> <<>>,
             out |-> [i \in 1..length |-> <<stash1[i], TruncDiv(delta, length)>>],
             panic |-> FALSE]

\* the body of `for (datum, delta) in data.drain(..)`: the stash is extended
\* with function(datum), its length is taken, and the stash is drained with
\* `delta / length` computed for every drained item (never for length 0)
flat_map_record(stash, datum, delta) ==
    LET stash1 == stash \o function(datum)
        length == Len(stash1)
    IN [stash |-> <<>>,
        out |-> [i \in 1..length |-> <<stash1[i], TruncDiv(delta, length)>>],
        panic |-> FALSE]

\* the records of a batch in arrival order; nothing runs after a panic
RECURSIVE flat_map_batch(_, _)
flat_map_batch(stash, data) ==
    IF data = <<>> THEN [stash |-> stash, out |-> <<>>, panic |-> FALSE]
    ELSE LET r == flat_map_record(stash, Head(data)[1], Head(data)[2])
         IN IF r.panic THEN r
            ELSE LET rest == flat_map_batch(r.stash, Tail(data))
                 IN [rest EXCEPT !.out = r.out \o @]

FlatMapBuffers ==
    UNION {[1..n -> FlatMapData \X FlatMapDeltas] : n \in FlatMapBatchSizes}

\* every accumulated weight is within the bound
FlatMapBounded(acc) == \A k \in DOMAIN acc : Abs(acc[k]) <= MaxFlatMapWeight

InitFlatMap ==
    /\ state = [stash |-> <<>>, drained |-> <<>>]
    /\ emitted = <<>>
    /\ output = <<>>
    /\ panicked = FALSE
    /\ MeasureIdle

\* one invocation of the FlatMap operator with one batch
FlatMap(buffer) ==
    /\ ~panicked
    /\ \E r \in {flat_map_batch(state.stash, buffer)} :
         \E acc \in {Collect(output, r.out)} :
            /\ FlatMapBounded(acc)
            /\ state' = [stash |-> r.stash, drained |-> buffer]
            /\ emitted' = r.out
            /\ output' = acc
            /\ panicked' = r.panic
    /\ UNCHANGED measureVars

FlatMapStep == \E buffer \in FlatMapBuffers : FlatMap(buffer)

NextFlatMap == FlatMapStep

SpecFlatMap == InitFlatMap /\ [][NextFlatMap]_vars

\* w / n rounded toward zero, stated without the division: the integer q of
\* the sign of w (or 0) with |q| * n <= |w| < (|q| + 1) * n
TowardZero(w, n) ==
    CHOOSE q \in (0 - Abs(w)) .. Abs(w) :
        /\ q * w >= 0
        /\ Abs(q) * n <= Abs(w)
        /\ Abs(w) < (Abs(q) + 1) * n

\* what the claim expects for a batch: for each record in order, one record
\* per item of function(d) in order, of weight w / n rounded toward zero
RECURSIVE ExpectedFlatMap(_)
ExpectedFlatMap(data) ==
    IF data = <<>> THEN <<>>
    ELSE LET d == Head(data)[1]
             w == Head(data)[2]
             n == Len(function(d))
         IN [i \in 1..n |-> <<function(d)[i], TowardZero(w, n)>>]
              \o ExpectedFlatMap(Tail(data))

\* C19: for every input record (d, w) with f(d) of length n >= 1, exactly n
\* records are given, one per item of f(d) in order, each of weight w / n
\* rounded toward zero (negative w included), so that the total given
\* differs from w by at most n - 1.
C19_FlatMapDividesTowardZero ==
    /\ emitted = ExpectedFlatMap(state.drained)
    /\ \A j \in DOMAIN state.drained :
          LET w == state.drained[j][2]
              n == Len(function(state.drained[j][1]))
          IN n >= 1 => Abs(w - n * TowardZero(w, n)) <= n - 1

\* the last batch held one record of weight -4 for a datum of three items:
\* three records of weight -1 were given
C19_Witness ==
    /\ state.drained = <<<<3, -4>>>>
    /\ emitted = <<<<1, -1>>, <<2, -1>>, <<3, -1>>>>
    /\ ~panicked

\* the records of a batch whose datum has at least one item
WithItems(data) == SelectSeq(data, LAMBDA x : Len(function(x[1])) > 0)

\* C20: an input record (d, w) with f(d) empty gives nothing and raises no
\* error (no division by zero), and the records given for later input records
\* are those given without it.
C20_EmptyListDropsRecord ==
    /\ ~panicked
    /\ state.stash = <<>>
    /\ emitted = flat_map_batch(<<>>, WithItems(state.drained)).out
    /\ \A j \in DOMAIN state.drained :
          function(state.drained[j][1]) = <<>> =>
             flat_map_record(<<>>, state.drained[j][1], state.drained[j][2]).out = <<>>

\* the last batch held a record of an empty datum followed by a record of a
\* datum of three items: only the three records of the second were given
C20_Witness ==
    /\ Len(state.drained) = 2
    /\ function(state.drained[1][1]) = <<>>
    /\ state.drained[2] = <<3, 4>>
    /\ emitted = <<<<1, 1>>, <<2, 1>>, <<3, 1>>>>
    /\ ~panicked

(***************************************************************************)
(* Two runs of flat_map, fed record by record (a batch is a sequence of    *)
(* records, and the stash is empty between records).  `state` is           *)
(* [stash, input]: per run, the stash and the accumulated input            *)
(* collection; `output` holds the accumulated output of each run and       *)
(* `emitted` the records given for the last record of either run.          *)
(***************************************************************************)
\* the total absolute weight of a collection
RECURSIVE Weigh(_)
Weigh(acc) ==
    IF DOMAIN acc = {} THEN 0
    ELSE LET k == CHOOSE x \in DOMAIN acc : TRUE
         IN Abs(acc[k]) + Weigh([x \in DOMAIN acc \ {k} |-> acc[x]])

\* the input data of the two runs: one item, and three items
FlatMapPairData == {1, 3}

InitFlatMapPair ==
    /\ state = [stash |-> <<<<>>, <<>>>>, input |-> <<<<>>, <<>>>>]
    /\ emitted = <<>>
    /\ output = <<<<>>, <<>>>>
    /\ panicked = FALSE
    /\ MeasureIdle

\* run `run` of the FlatMap operator is handed the record (datum, delta)
FlatMapRun(run, datum, delta) ==
    /\ ~panicked
    /\ \E r \in {flat_map_record(state.stash[run], datum, delta)} :
         \E acc \in {Collect(state.input[run], <<<<datum, delta>>>>)} :
            /\ Weigh(acc) <= MaxFlatMapWeight
            /\ Weigh(Collect(output[run], r.out)) <= MaxFlatMapWeight
            /\ state' = [stash |-> [state.stash EXCEPT ![run] = r.stash],
                         input |-> [state.input EXCEPT ![run] = acc]]
            /\ emitted' = r.out
            /\ output' = [output EXCEPT ![run] = Collect(@, r.out)]
            /\ panicked' = r.panic
    /\ UNCHANGED measureVars

FlatMapFirstRun ==
    \E datum \in FlatMapPairData, delta \in FlatMapDeltas : FlatMapRun(1, datum, delta)

FlatMapSecondRun ==
    \E datum \in FlatMapPairData, delta \in FlatMapDeltas : FlatMapRun(2, datum, delta)

NextFlatMapPair == FlatMapFirstRun \/ FlatMapSecondRun

SpecFlatMapPair == InitFlatMapPair /\ [][NextFlatMapPair]_vars

\* C21: flat_map is insensitive to the order and the splitting of its input:
\* two update sequences with the same consolidated content (the same total
\* weight for every datum) have the same accumulated output.
C21_FlatMapOrderInsensitive ==
    state.input[1] = state.input[2] => output[1] = output[2]

(***************************************************************************)
(* The stateless operators of Dataset (src/src/lib.rs): map, filter,       *)
(* concat and except, each a per-record transformation of one stream.      *)
(* They are applied to two inputs at once: `state` is [x, other], the two  *)
(* input streams x[1], x[2] and the two streams other[1], other[2] they    *)
(* are merged with; `output` is [op, out], the operator applied last and   *)
(* the two output streams.                                                 *)
(***************************************************************************)
\* the weights of the records of the input streams
StatelessDeltas == {-1, 1}
\* the input streams: at most two records
StatelessStreams == UNION {[1..n -> Elems \X StatelessDeltas] : n \in 0..2}
\* the streams merged in: at most one record
OtherStreams == UNION {[1..n -> Elems \X StatelessDeltas] : n \in 0..1}
\* the functions given to map, and the predicates given to filter (as the
\* set of the elements they accept)
MapFunctions == [Elems -> Elems]
FilterPredicates == SUBSET Elems

\* a map that doubles every weight
map_doubled(stream, f) ==
    [i \in DOMAIN stream |-> <<f[stream[i][1]], 2 * stream[i][2]>>]

\* self.truth.map(move |(d,w)| (function1(d), w))
map(stream, f) ==
    [i \in DOMAIN stream |-> <<f[stream[i][1]], stream[i][2]>>]

\* self.truth.filter(move |&(ref d,_)| (predicate1)(d))
filter(stream, predicate) == SelectSeq(stream, LAMBDA r : r[1] \in predicate)

\* self.truth.concat(&other.truth): the records of both streams (their
\* interleaving is left to the runtime; the collection is the same)
concat(stream, other) == stream \o other

\* self.truth.concat(&other.truth.map(|(d,w)| (d,-w)))
except(stream, other) == concat(stream, Negate(other))

InitStateless ==
    /\ state \in [x : StatelessStreams \X StatelessStreams,
                   other : OtherStreams \X OtherStreams]
    /\ emitted = <<>>
    /\ output = [op |-> "none", out |-> <<<<>>, <<>>>>]
    /\ panicked = FALSE
    /\ MeasureIdle

Map ==
    /\ \E f \in MapFunctions :
         output' = [op |-> "map", out |-> <<map(state.x[1], f), map(state.x[2], f)>>]
    /\ UNCHANGED <<state, emitted, panicked>>
    /\ UNCHANGED measureVars

Filter ==
    /\ \E predicate \in FilterPredicates :
         output' = [op |-> "filter",
                    out |-> <<filter(state.x[1], predicate), filter(state.x[2], predicate)>>]
    /\ UNCHANGED <<state, emitted, panicked>>
    /\ UNCHANGED measureVars

Concat ==
    /\ output' = [op |-> "concat",
                  out |-> <<concat(state.x[1], state.other[1]),
                            concat(state.x[2], state.other[2])>>]
    /\ UNCHANGED <<state, emitted, panicked>>
    /\ UNCHANGED measureVars

Except ==
    /\ output' = [op |-> "except",
                  out |-> <<except(state.x[1], state.other[1]),
                            except(state.x[2], state.other[2])>>]
    /\ UNCHANGED <<state, emitted, panicked>>
    /\ UNCHANGED measureVars

NextStateless == Map \/ Filter \/ Concat \/ Except

SpecStateless == InitStateless /\ [][NextStateless]_vars

\* the total absolute difference of the weights of two streams, as
\* consolidated collections
Distance(stream1, stream2) ==
    LET a == Collect(<<>>, stream1)
        b == Collect(<<>>, stream2)
        keys == DOMAIN a \cup DOMAIN b
    IN SumOver([k \in keys |-> Abs(Accumulated(a, k) - Accumulated(b, k))], keys)

\* the amount by which the inputs of the operator applied last differ
InputDistance ==
    Distance(state.x[1], state.x[2])
      + (IF output.op \in {"concat", "except"}
         THEN Distance(state.other[1], state.other[2]) ELSE 0)

\* C22: map, filter, concat and except are affine: when the inputs differ by
\* a total absolute weight s, the consolidated outputs differ by at most s.
C22_StatelessOperatorsAffine ==
    output.op # "none" =>
        Distance(output.out[1], output.out[2]) <= InputDistance

\* a map has merged two different inputs of distance 2 or more into outputs
\* that still differ
C22_Witness ==
    /\ output.op = "map"
    /\ Distance(state.x[1], state.x[2]) >= 2
    /\ Distance(output.out[1], output.out[2]) >= 1
    /\ Distance(output.out[1], output.out[2]) < Distance(state.x[1], state.x[2])

(***************************************************************************)
(* Dataset (src/src/lib.rs): every method builds one operator on the truth *)
(* stream and a second one, with its own state, on the synth stream.  Both *)
(* run on one worker, which runs one operator at a time to completion: an  *)
(* operator that panics or never returns halts the worker.                 *)
(* Two runs of one Dataset method are modelled together.  `state` is       *)
(*   [op, same, runs, updates]                                             *)
(* with op the method, same the side ("truth" or "synth") whose updates    *)
(* are the same in both runs, runs[r] = [truth, synth, halted] the states  *)
(* of the two operators of run r and whether its worker has halted, and    *)
(* updates the number of updates made; `output[r]` is [truth, synth], the  *)
(* accumulated output of each side of run r, and `emitted[r]` the records  *)
(* given in run r by the last update.                                      *)
(***************************************************************************)
DatasetOps ==
    {"map", "filter", "concat", "except", "flat_map", "shave", "min_max", "join"}
Sides == {"truth", "synth"}
\* the width the Dataset is shaved with
DatasetShaveWidth == 2
\* the number of updates explored
DatasetMaxUpdates == 3
\* the function given to map and the predicate given to filter
DatasetMapFunction == [d \in Elems |-> 1]
DatasetFilterPredicate == {1}

\* the state an operator is built with
operator_new(op) ==
    IF op = "shave"
    THEN [width |-> DatasetShaveWidth, weight |-> <<>>, spinning |-> FALSE]
    ELSE <<>>

\* the records <<input, datum, delta>> one stream of the Dataset, or of the
\* other Dataset of a binary method, can carry
DatasetRecords(op) ==
    IF op = "join" THEN {1, 2} \X (Keys \X V1) \X Deltas
    ELSE IF op \in {"concat", "except", "min_max"} THEN {1, 2} \X Elems \X Deltas
    ELSE {1} \X Elems \X Deltas

\* records marked with the output stream they are given on
Tagged(tag, records) ==
    [i \in DOMAIN records |-> <<<<tag, records[i][1]>>, records[i][2]>>]

\* one operator of the method `op`, in state st, handles the record rec
operator(op, st, rec) ==
    LET one == <<<<rec[2], rec[3]>>>>
    IN CASE op = "map" ->
              [state |-> st, out |-> map(one, DatasetMapFunction), halt |-> FALSE]
         [] op = "filter" ->
              [state |-> st, out |-> filter(one, DatasetFilterPredicate), halt |-> FALSE]
         [] op = "concat" ->
              [state |-> st,
               out |-> IF rec[1] = 1 THEN concat(one, <<>>) ELSE concat(<<>>, one),
               halt |-> FALSE]
         [] op = "except" ->
              [state |-> st,
               out |-> IF rec[1] = 1 THEN except(one, <<>>) ELSE except(<<>>, one),
               halt |-> FALSE]
         [] op = "flat_map" ->
              LET r == flat_map_record(st, rec[2], rec[3])
              IN [state |-> r.stash, out |-> r.out, halt |-> r.panic]
         [] op = "shave" ->
              LET r == shave_update(st, rec[2], rec[3])
              IN [state |-> r.state, out |-> r.out,
                  halt |-> r.panic \/ r.state.spinning]
         [] op = "min_max" ->
              LET r == min_max_update(st, rec[1], rec[2], rec[3])
              IN [state |-> r.state,
                  out |-> Tagged("min", r.min) \o Tagged("max", r.max),
                  halt |-> FALSE]
         [] op = "join" ->
              LET r == join_update(st, rec[1], rec[2][1], rec[2][2], rec[3])
              IN [state |-> r.state, out |-> r.emitted, halt |-> r.panic]

\* the operator of `side` in a run handles rec, unless the worker has halted
dataset_update(op, run, acc, side, rec) ==
    IF run.halted THEN [run |-> run, out |-> <<>>, acc |-> acc]
    ELSE LET r == operator(op, run[side], rec)
         IN [run |-> [run EXCEPT ![side] = r.state, !.halted = r.halt],
             out |-> r.out,
             acc |-> [acc EXCEPT ![side] = Collect(@, r.out)]]

InitDataset ==
    /\ state \in {[op |-> op, same |-> side, updates |-> 0,
                    runs |-> [r \in {1, 2} |->
                                [truth |-> operator_new(op),
                                 synth |-> operator_new(op),
                                 halted |-> FALSE]]] :
                       op \in DatasetOps, side \in Sides}
    /\ emitted = <<<<>>, <<>>>>
    /\ output = [r \in {1, 2} |-> [truth |-> <<>>, synth |-> <<>>]]
    /\ panicked = FALSE
    /\ MeasureIdle

\* the side whose updates differ between the runs
OtherSide == IF state.same = "truth" THEN "synth" ELSE "truth"

\* both runs are handed the same update on the side they share
SameUpdate ==
    /\ state.updates < DatasetMaxUpdates
    /\ \E rec \in DatasetRecords(state.op) :
         \E r1 \in {dataset_update(state.op, state.runs[1], output[1], state.same, rec)} :
         \E r2 \in {dataset_update(state.op, state.runs[2], output[2], state.same, rec)} :
            /\ state' = [state EXCEPT !.runs = <<r1.run, r2.run>>, !.updates = @ + 1]
            /\ emitted' = <<r1.out, r2.out>>
            /\ output' = <<r1.acc, r2.acc>>
    /\ UNCHANGED panicked
    /\ UNCHANGED measureVars

\* one run alone is handed an update on the other side
OtherUpdate ==
    /\ state.updates < DatasetMaxUpdates
    /\ \E n \in {1, 2} : \E rec \in DatasetRecords(state.op) :
         \E r \in {dataset_update(state.op, state.runs[n], output[n], OtherSide, rec)} :
            /\ ~state.runs[n].halted
            /\ state' = [state EXCEPT !.runs[n] = r.run, !.updates = @ + 1]
            /\ emitted' = [emitted EXCEPT ![n] = r.out, ![3 - n] = <<>>]
            /\ output' = [output EXCEPT ![n] = r.acc]
    /\ UNCHANGED panicked
    /\ UNCHANGED measureVars

NextDataset == SameUpdate \/ OtherUpdate

SpecDataset == InitDataset /\ [][NextDataset]_vars

\* C23: the outputs and the operator state of one side depend on the
\* updates of that side only: two runs with the same truth updates and
\* different synth updates have the same truth outputs and truth operator
\* state, and the same with the sides exchanged.
C23_SidesIndependent ==
    /\ state.runs[1][state.same] = state.runs[2][state.same]
    /\ output[1][state.same] = output[2][state.same]

\* what holds of the code: the sides agree as long as no worker has halted
SidesAgreeWhileRunning ==
    (~state.runs[1].halted /\ ~state.runs[2].halted) => C23_SidesIndependent

(***************************************************************************)
(* MergeSorter (src/src/merge_sort.rs).  A chunk is a Vec of records, a    *)
(* run a Vec of chunks, and `queue` the stack of runs (the last one on     *)
(* top).  The stash of spare allocations holds empty chunks only and is    *)
(* left out: chunks are modelled by their contents, and every chunk that   *)
(* merge_by fills has the capacity ChunkCapacity (1024 in the code).       *)
(* For the sorter, `state` is [queue, pushed]: the run stack and the       *)
(* records pushed so far, in order (kept to state properties); `emitted`   *)
(* is the target of the last finish_into.                                  *)
(***************************************************************************)
\* the data of the pushed records
SorterData == {1, 2, 3, 4}
SorterRank == [d \in SorterData |-> d]
\* the weights of the pushed records
SorterDeltas == {-1, 1}
\* the number of records of a pushed batch
SorterBatchSizes == {1, 2}
\* the capacity of the chunks merge_by fills
ChunkCapacity == 1
\* the number of records pushed before finish_into
MaxPushed == 5

\* the chunks of a run, one after the other
RECURSIVE Flatten(_)
Flatten(run) == IF run = <<>> THEN <<>> ELSE Head(run) \o Flatten(Tail(run))

\* the end of merge_by, once one input has no record left: the chunk being
\* filled is pushed if it holds a record, then what is left of head1 as one
\* chunk and the chunks left of list1, then the same for head2 and list2
merge_rest(list1, head1, list2, head2, result, merged) ==
    (IF result # <<>> THEN Append(merged, result) ELSE merged)
       \o (IF head1 # <<>> THEN <<head1>> ELSE <<>>) \o list1
       \o (IF head2 # <<>> THEN <<head2>> ELSE <<>>) \o list2

\* a merge that keeps both records of a datum held by both inputs
RECURSIVE merge_loop_keep_both(_, _, _, _, _, _)
merge_loop_keep_both(list1, head1, list2, head2, result, merged) ==
    IF head1 = <<>> \/ head2 = <<>>
    THEN merge_rest(list1, head1, list2, head2, result, merged)
    ELSE LET x == Head(head1)
             y == Head(head2)
             less == SorterRank[x[1]] <= SorterRank[y[1]]
             h1 == IF less THEN Tail(head1) ELSE head1
             h2 == IF less THEN head2 ELSE Tail(head2)
             res == Append(result, IF less THEN x ELSE y)
             inner == Len(res) < ChunkCapacity /\ h1 # <<>> /\ h2 # <<>>
             full == Len(res) = ChunkCapacity
             next1 == IF h1 = <<>> /\ list1 # <<>> THEN Head(list1) ELSE h1
             rest1 == IF h1 = <<>> /\ list1 # <<>> THEN Tail(list1) ELSE list1
             next2 == IF h2 = <<>> /\ list2 # <<>> THEN Head(list2) ELSE h2
             rest2 == IF h2 = <<>> /\ list2 # <<>> THEN Tail(list2) ELSE list2
         IN IF inner
            THEN merge_loop_keep_both(list1, h1, list2, h2, res, merged)
            ELSE merge_loop_keep_both(rest1, next1, rest2, next2,
                                      IF full THEN <<>> ELSE res,
                                      IF full THEN Append(merged, res) ELSE merged)

\* a merge that keeps the record of a datum whose weights add up to 0
RECURSIVE merge_loop_keep_zero(_, _, _, _, _, _)
merge_loop_keep_zero(list1, head1, list2, head2, result, merged) ==
    IF head1 = <<>> \/ head2 = <<>>
    THEN merge_rest(list1, head1, list2, head2, result, merged)
    ELSE LET x == Head(head1)
             y == Head(head2)
             less == SorterRank[x[1]] < SorterRank[y[1]]
             greater == SorterRank[x[1]] > SorterRank[y[1]]
             h1 == IF greater THEN head1 ELSE Tail(head1)
             h2 == IF less THEN head2 ELSE Tail(head2)
             diff == x[2] + y[2]
             res == IF less THEN Append(result, x)
                    ELSE IF greater THEN Append(result, y)
                    ELSE Append(result, <<x[1], diff>>)
             inner == Len(res) < ChunkCapacity /\ h1 # <<>> /\ h2 # <<>>
             full == Len(res) = ChunkCapacity
             next1 == IF h1 = <<>> /\ list1 # <<>> THEN Head(list1) ELSE h1
             rest1 == IF h1 = <<>> /\ list1 # <<>> THEN Tail(list1) ELSE list1
             next2 == IF h2 = <<>> /\ list2 # <<>> THEN Head(list2) ELSE h2
             rest2 == IF h2 = <<>> /\ list2 # <<>> THEN Tail(list2) ELSE list2
         IN IF inner
            THEN merge_loop_keep_zero(list1, h1, list2, h2, res, merged)
            ELSE merge_loop_keep_zero(rest1, next1, rest2, next2,
                            IF full THEN <<>> ELSE res,
                            IF full THEN Append(merged, res) ELSE merged)

\* the loop `while !head1.is_empty() && !head2.is_empty()` of merge_by, one
\* comparison at a time: the smaller record goes to `result`, equal data are
\* added up and kept when the sum is not 0; when the inner loop stops, a
\* full `result` is pushed to `output` and an empty head takes the next
\* chunk of its list
RECURSIVE merge_loop(_, _, _, _, _, _)
merge_loop(list1, head1, list2, head2, result, merged) ==
    IF head1 = <<>> \/ head2 = <<>>
    THEN merge_rest(list1, head1, list2, head2, result, merged)
    ELSE LET x == Head(head1)
             y == Head(head2)
             less == SorterRank[x[1]] < SorterRank[y[1]]
             greater == SorterRank[x[1]] > SorterRank[y[1]]
             h1 == IF greater THEN head1 ELSE Tail(head1)
             h2 == IF less THEN head2 ELSE Tail(head2)
             diff == x[2] + y[2]
             res == IF less THEN Append(result, x)
                    ELSE IF greater THEN Append(result, y)
                    ELSE IF diff # 0 THEN Append(result, <<x[1], diff>>)
                    ELSE result
             inner == Len(res) < ChunkCapacity /\ h1 # <<>> /\ h2 # <<>>
             full == Len(res) = ChunkCapacity
             next1 == IF h1 = <<>> /\ list1 # <<>> THEN Head(list1) ELSE h1
             rest1 == IF h1 = <<>> /\ list1 # <<>> THEN Tail(list1) ELSE list1
             next2 == IF h2 = <<>> /\ list2 # <<>> THEN Head(list2) ELSE h2
             rest2 == IF h2 = <<>> /\ list2 # <<>> THEN Tail(list2) ELSE list2
         IN IF inner
            THEN merge_loop(list1, h1, list2, h2, res, merged)
            ELSE merge_loop(rest1, next1, rest2, next2,
                            IF full THEN <<>> ELSE res,
                            IF full THEN Append(merged, res) ELSE merged)

\* MergeSorter::merge_by: each head starts as the first chunk of its list
merge_by(list1, list2) ==
    merge_loop(IF list1 # <<>> THEN Tail(list1) ELSE <<>>,
               IF list1 # <<>> THEN Head(list1) ELSE <<>>,
               IF list2 # <<>> THEN Tail(list2) ELSE <<>>,
               IF list2 # <<>> THEN Head(list2) ELSE <<>>,
               <<>>, <<>>)

\* the two runs on top of the stack replaced by their merge
merge_top(queue) ==
    LET n == Len(queue)
    IN Append(SubSeq(queue, 1, n - 2), merge_by(queue[n], queue[n - 1]))

\* a push that merges no runs
settle_nothing(queue) == queue

\* the loop of push: while the top run has at least half the chunks of the
\* run below it, merge the two
RECURSIVE settle(_)
settle(queue) ==
    IF Len(queue) > 1 /\ Len(queue[Len(queue)]) >= Len(queue[Len(queue) - 1]) \div 2
    THEN settle(merge_top(queue))
    ELSE queue

\* MergeSorter::push: a batch that holds a record is sorted, consolidated
\* and pushed as a run of one chunk, then the stack is settled
push(queue, batch) ==
    IF Len(batch) > 0
    THEN settle(Append(queue, <<consolidate(batch, SorterRank)>>))
    ELSE queue

\* MergeSorter::finish_into: all the runs are merged into one, which
\* replaces the target; the target is left alone when there is no run
RECURSIVE finish_into(_, _)
finish_into(queue, target) ==
    IF Len(queue) > 1 THEN finish_into(merge_top(queue), target)
    ELSE IF Len(queue) = 1 THEN queue[1]
    ELSE target

SorterBatches ==
    UNION {[1..n -> SorterData \X SorterDeltas] : n \in SorterBatchSizes}

InitSorter ==
    /\ state = [queue |-> <<>>, pushed |-> <<>>]
    /\ emitted = <<>>
    /\ output = <<>>
    /\ panicked = FALSE
    /\ MeasureIdle

\* a batch is pushed to a sorter that was not finished yet
Push(batch) ==
    /\ output = <<>>
    /\ Len(state.pushed) + Len(batch) <= MaxPushed
    /\ state' = [queue |-> push(state.queue, batch),
                 pushed |-> state.pushed \o batch]
    /\ UNCHANGED <<emitted, output, panicked>>
    /\ UNCHANGED measureVars

PushStep == \E batch \in SorterBatches : Push(batch)

\* finish_into with an empty target; the sorter is left empty
FinishInto ==
    /\ state.pushed # <<>>
    /\ emitted' = finish_into(state.queue, <<>>)
    /\ output' = state.pushed
    /\ state' = [queue |-> <<>>, pushed |-> <<>>]
    /\ UNCHANGED panicked
    /\ UNCHANGED measureVars

NextSorter == PushStep \/ FinishInto

SpecSorter == InitSorter /\ [][NextSorter]_vars

\* C24: whatever batches were pushed, finish_into yields runs whose
\* concatenation is the sort by datum of all the pushed records,
\* consolidated: one record per datum, of weight the sum of its pushed
\* weights, none of weight 0.
C24_FinishIsSortAndConsolidate ==
    /\ Flatten(emitted) = consolidate(output, SorterRank)
    /\ Flatten(finish_into(state.queue, <<>>)) = consolidate(state.pushed, SorterRank)

\* finish_into has merged several pushed batches, one datum was pushed twice
\* and added up, another was cancelled, and the result has several chunks
C24_Witness ==
    /\ state.pushed = <<>>
    /\ Len(output) >= 4
    /\ Len(emitted) >= 2
    /\ \E i \in DOMAIN emitted : \E j \in DOMAIN emitted[i] : emitted[i][j][2] = 2
    /\ \E i \in DOMAIN output : \A c \in DOMAIN emitted : \A j \in DOMAIN emitted[c] :
          emitted[c][j][1] # output[i][1]

(***************************************************************************)
(* fit_cdf_seq (src/src/analyses/degrees.rs).  Vectors are 0-based in the  *)
(* code and sequences 1-based here: vec[i] is At(vec, i).  The inputs are  *)
(* integer-valued, so f64 arithmetic and round() are exact.                *)
(* For fit_cdf_seq, `state` is [horizontal, vertical, cost, build]: the    *)
(* arguments and the build profile (overflow checks on or off); `output`   *)
(* is what the call did: [called, panic, result_h, result_v, writes_h,     *)
(* writes_v], the last two counting the writes of the backward walk to     *)
(* each entry; `emitted` is the map `dists` at the end of the call.        *)
(***************************************************************************)
\* the greatest value in an input, and the greatest length of an input
MaxFitValue == 2
MaxFitLength == 2
FitValues == 0 .. MaxFitValue
FitLengths == 0 .. MaxFitLength
\* the cost functions: |expected - actual|, its square, and a constant
Costs == {"abs", "square", "one"}
\* overflow-checks on (debug profile) or off (release profile)
Builds == {"debug", "release"}

cost(c, expected, actual) ==
    CASE c = "abs" -> Abs(expected - actual)
      [] c = "square" -> (expected - actual) * (expected - actual)
      [] c = "one" -> 1

\* vec[i] for a 0-based index
At(vec, i) == vec[i + 1]

\* vec.iter().max() clamped at 0 (the vector is not empty)
MaxOrZero(vec) ==
    LET m == CHOOSE a \in {vec[i] : i \in DOMAIN vec} :
                 \A b \in {vec[i] : i \in DOMAIN vec} : b <= a
    IN max(m, 0)

\* pop from a heap whose keys are not reversed: the greatest d first
HeapTop_unreversed(queue) ==
    CHOOSE e \in queue : \A f \in queue :
        \/ e[1] > f[1]
        \/ e[1] = f[1] /\ e[2] > f[2]
        \/ e[1] = f[1] /\ e[2] = f[2] /\ e[3] >= f[3]

\* BinaryHeap::pop on tuples (QueueKey(d), x, y): QueueKey reverses the
\* order of d, so the greatest tuple has the least d, then the greatest x,
\* then the greatest y
HeapTop(queue) ==
    CHOOSE e \in queue : \A f \in queue :
        \/ e[1] < f[1]
        \/ e[1] = f[1] /\ e[2] > f[2]
        \/ e[1] = f[1] /\ e[2] = f[2] /\ e[3] >= f[3]

\* the loop `while !dists.contains_key(&(max_x, 0))`; the heap is kept as the
\* set of its tuples (a second copy of a tuple pops as a visited node)
RECURSIVE search(_, _, _, _, _, _, _)
search(horizontal, vertical, c, max_x, max_y, queue, dists) ==
    IF <<max_x, 0>> \in DOMAIN dists THEN [panic |-> "none", dists |-> dists]
    ELSE IF queue = {} THEN [panic |-> "ran out of reachable states", dists |-> dists]
    ELSE LET top == HeapTop(queue)
             d == top[1]
             x == top[2]
             y == top[3]
             rest == queue \ {top}
         IN IF <<x, y>> \in DOMAIN dists
            THEN search(horizontal, vertical, c, max_x, max_y, rest, dists)
            ELSE LET dists1 == (<<x, y>> :> d) @@ dists
                     right == x + 1 <= max_x
                     down == y > 0
                 IN IF (right /\ x >= Len(horizontal)) \/ (down /\ y - 1 >= Len(vertical))
                    THEN [panic |-> "index out of bounds", dists |-> dists1]
                    ELSE search(horizontal, vertical, c, max_x, max_y,
                           rest
                             \cup (IF right
                                   THEN {<<d + cost(c, At(horizontal, x), y), x + 1, y>>}
                                   ELSE {})
                             \cup (IF down
                                   THEN {<<d + cost(c, At(vertical, y - 1), x), x, y - 1>>}
                                   ELSE {}),
                           dists1)

\* a walk back that breaks ties toward the vertical predecessor and, of two
\* visited predecessors, takes the one of greater distance
RECURSIVE walk_back_worst(_, _, _, _, _, _, _, _)
walk_back_worst(horizontal, vertical, c, build, max_y, dists, current, result) ==
    IF current = <<0, max_y>> THEN [result EXCEPT !.panic = "none"]
    ELSE LET x == current[1]
             y == current[2]
             some1 == x > 0 /\ <<x - 1, y>> \in DOMAIN dists
             some2 == <<x, y + 1>> \in DOMAIN dists
             left == [result EXCEPT !.result_h[x] = y, !.writes_h[x] = @ + 1]
             up == [result EXCEPT !.result_v[y + 1] = x, !.writes_v[y + 1] = @ + 1]
         IN IF x = 0 /\ build = "debug"
            THEN [result EXCEPT !.panic = "attempt to subtract with overflow"]
            ELSE IF ~some1 /\ ~some2
            THEN [result EXCEPT !.panic = "backwards tracing failed"]
            ELSE IF some1 /\ ~some2
            THEN walk_back_worst(horizontal, vertical, c, build, max_y, dists, <<x - 1, y>>, left)
            ELSE IF ~some1 /\ some2
            THEN walk_back_worst(horizontal, vertical, c, build, max_y, dists, <<x, y + 1>>, up)
            ELSE LET d1 == dists[<<x - 1, y>>] + cost(c, At(horizontal, x - 1), y)
                     d2 == dists[<<x, y + 1>>] + cost(c, At(vertical, y), x)
                 IN IF d1 > d2
                    THEN walk_back_worst(horizontal, vertical, c, build, max_y, dists, <<x - 1, y>>, left)
                    ELSE walk_back_worst(horizontal, vertical, c, build, max_y, dists, <<x, y + 1>>, up)

\* a walk back that writes the height above the horizontal move
RECURSIVE walk_back_off_by_one(_, _, _, _, _, _, _, _)
walk_back_off_by_one(horizontal, vertical, c, build, max_y, dists, current, result) ==
    IF current = <<0, max_y>> THEN [result EXCEPT !.panic = "none"]
    ELSE LET x == current[1]
             y == current[2]
             some1 == x > 0 /\ <<x - 1, y>> \in DOMAIN dists
             some2 == <<x, y + 1>> \in DOMAIN dists
             left == [result EXCEPT !.result_h[x] = y + 1, !.writes_h[x] = @ + 1]
             up == [result EXCEPT !.result_v[y + 1] = x, !.writes_v[y + 1] = @ + 1]
         IN IF x = 0 /\ build = "debug"
            THEN [result EXCEPT !.panic = "attempt to subtract with overflow"]
            ELSE IF ~some1 /\ ~some2
            THEN [result EXCEPT !.panic = "backwards tracing failed"]
            ELSE IF some1 /\ ~some2
            THEN walk_back_off_by_one(horizontal, vertical, c, build, max_y, dists, <<x - 1, y>>, left)
            ELSE IF ~some1 /\ some2
            THEN walk_back_off_by_one(horizontal, vertical, c, build, max_y, dists, <<x, y + 1>>, up)
            ELSE LET d1 == dists[<<x - 1, y>>] + cost(c, At(horizontal, x - 1), y)
                     d2 == dists[<<x, y + 1>>] + cost(c, At(vertical, y), x)
                 IN IF d1 <= d2
                    THEN walk_back_off_by_one(horizontal, vertical, c, build, max_y, dists, <<x - 1, y>>, left)
                    ELSE walk_back_off_by_one(horizontal, vertical, c, build, max_y, dists, <<x, y + 1>>, up)

\* the loop `while current != (0, max_y)`.  `x - 1` with x = 0 overflows
\* usize: a panic with overflow checks, and without them the wrapped key is
\* not in dists (None)
RECURSIVE walk_back(_, _, _, _, _, _, _, _)
walk_back(horizontal, vertical, c, build, max_y, dists, current, result) ==
    IF current = <<0, max_y>> THEN [result EXCEPT !.panic = "none"]
    ELSE LET x == current[1]
             y == current[2]
             some1 == x > 0 /\ <<x - 1, y>> \in DOMAIN dists
             some2 == <<x, y + 1>> \in DOMAIN dists
             left == [result EXCEPT !.result_h[x] = y, !.writes_h[x] = @ + 1]
             up == [result EXCEPT !.result_v[y + 1] = x, !.writes_v[y + 1] = @ + 1]
         IN IF x = 0 /\ build = "debug"
            THEN [result EXCEPT !.panic = "attempt to subtract with overflow"]
            ELSE IF ~some1 /\ ~some2
            THEN [result EXCEPT !.panic = "backwards tracing failed"]
            ELSE IF some1 /\ ~some2
            THEN walk_back(horizontal, vertical, c, build, max_y, dists, <<x - 1, y>>, left)
            ELSE IF ~some1 /\ some2
            THEN walk_back(horizontal, vertical, c, build, max_y, dists, <<x, y + 1>>, up)
            ELSE LET d1 == dists[<<x - 1, y>>] + cost(c, At(horizontal, x - 1), y)
                     d2 == dists[<<x, y + 1>>] + cost(c, At(vertical, y), x)
                 IN IF d1 <= d2
                    THEN walk_back(horizontal, vertical, c, build, max_y, dists, <<x - 1, y>>, left)
                    ELSE walk_back(horizontal, vertical, c, build, max_y, dists, <<x, y + 1>>, up)

\* the body of fit_cdf_seq after its two assertions
fit_path(horizontal, vertical, c, build) ==
    LET max_x == MaxOrZero(vertical)
        max_y == MaxOrZero(horizontal)
        found == search(horizontal, vertical, c, max_x, max_y, {<<0, 0, max_y>>}, <<>>)
        blank == [called |-> TRUE, panic |-> found.panic,
                  result_h |-> [i \in 1..max_x |-> 0],
                  result_v |-> [i \in 1..max_y |-> 0],
                  writes_h |-> [i \in 1..max_x |-> 0],
                  writes_v |-> [i \in 1..max_y |-> 0],
                  dists |-> found.dists]
    IN IF found.panic # "none"
       THEN [blank EXCEPT !.result_h = <<>>, !.result_v = <<>>,
                           !.writes_h = <<>>, !.writes_v = <<>>]
       ELSE LET r == walk_back(horizontal, vertical, c, build, max_y,
                               found.dists, <<max_x, 0>>, blank)
            IN IF r.panic # "none"
               THEN [r EXCEPT !.result_h = <<>>, !.result_v = <<>>,
                           !.writes_h = <<>>, !.writes_v = <<>>]
               ELSE r

\* fit_cdf_seq taking an empty input for a vector of no degrees
fit_cdf_seq_unchecked(horizontal, vertical, c, build) ==
    IF horizontal = <<>> \/ vertical = <<>>
    THEN [called |-> TRUE, panic |-> "none", result_h |-> <<>>, result_v |-> <<>>,
          writes_h |-> <<>>, writes_v |-> <<>>, dists |-> (<<0, 0>> :> 0)]
    ELSE fit_path(horizontal, vertical, c, build)

fit_cdf_seq(horizontal, vertical, c, build) ==
    IF horizontal = <<>> \/ vertical = <<>>
    THEN [called |-> TRUE, panic |-> "assertion failed",
          result_h |-> <<>>, result_v |-> <<>>,
          writes_h |-> <<>>, writes_v |-> <<>>, dists |-> <<>>]
    ELSE fit_path(horizontal, vertical, c, build)

FitInputs == UNION {[1..n -> FitValues] : n \in FitLengths}

\* the inputs of tests::test_fit1
test_fit1 ==
    [horizontal |-> <<10, 4, 2, 1, 1>>,
     vertical |-> <<5, 3, 2, 2, 1, 1, 1, 1, 1, 1>>]

InitFit ==
    /\ state \in [horizontal : FitInputs, vertical : FitInputs,
                   cost : Costs, build : Builds]
                 \cup [horizontal : {test_fit1.horizontal}, vertical : {test_fit1.vertical},
                       cost : {"abs"}, build : Builds]
    /\ emitted = <<>>
    /\ output = [called |-> FALSE, panic |-> "none", result_h |-> <<>>, result_v |-> <<>>,
                 writes_h |-> <<>>, writes_v |-> <<>>]
    /\ panicked = FALSE
    /\ MeasureIdle

\* the call fit_cdf_seq(horizontal, vertical, cost)
FitCdfSeq ==
    /\ ~output.called
    /\ \E r \in {fit_cdf_seq(state.horizontal, state.vertical, state.cost, state.build)} :
         /\ output' = [called |-> TRUE, panic |-> r.panic,
                       result_h |-> r.result_h, result_v |-> r.result_v,
                       writes_h |-> r.writes_h, writes_v |-> r.writes_v]
         /\ emitted' = r.dists
         /\ panicked' = (r.panic # "none")
    /\ UNCHANGED state
    /\ UNCHANGED measureVars

NextFit == FitCdfSeq

SpecFit == InitFit /\ [][NextFit]_vars

\* the non-increasing heights of the horizontal moves of a path from
\* (0, max_y) to (max_x, 0)
Staircases(max_x, max_y) ==
    {rh \in [1..max_x -> 0..max_y] :
        \A i \in 1..max_x : \A j \in 1..max_x : i < j => rh[i] >= rh[j]}

\* the columns of the vertical moves of the path whose horizontal moves are rh
Transpose(rh, max_y) ==
    [y \in 1..max_y |-> Cardinality({x \in DOMAIN rh : rh[x] > y - 1})]

RECURSIVE MovesCost(_, _, _, _)
MovesCost(c, expected, actual, n) ==
    IF n = 0 THEN 0
    ELSE cost(c, expected[n], actual[n]) + MovesCost(c, expected, actual, n - 1)

\* cost(horizontal[x], y) per horizontal move plus cost(vertical[y-1], x) per
\* vertical move
PathCost(horizontal, vertical, c, rh, rv) ==
    MovesCost(c, horizontal, rh, Len(rh)) + MovesCost(c, vertical, rv, Len(rv))

FitReturned == output.called /\ output.panic = "none"

\* C25: whenever fit_cdf_seq returns, (result_h, result_v) is a monotone path
\* from (0, max_y) to (max_x, 0) and no such path has a smaller total cost.
C25_ReturnedPathIsMinimal ==
    FitReturned =>
        LET max_x == MaxOrZero(state.vertical)
            max_y == MaxOrZero(state.horizontal)
            mine == PathCost(state.horizontal, state.vertical, state.cost,
                             output.result_h, output.result_v)
        IN /\ output.result_h \in Staircases(max_x, max_y)
           /\ output.result_v = Transpose(output.result_h, max_y)
           /\ \A rh \in Staircases(max_x, max_y) :
                 mine <= PathCost(state.horizontal, state.vertical, state.cost,
                                  rh, Transpose(rh, max_y))

C25_Witness ==
    /\ FitReturned
    /\ Len(output.result_h) = 2 /\ Len(output.result_v) = 2
    /\ PathCost(state.horizontal, state.vertical, state.cost,
                output.result_h, output.result_v) > 0
    /\ \E rh \in Staircases(2, 2) :
          PathCost(state.horizontal, state.vertical, state.cost, rh, Transpose(rh, 2))
            > PathCost(state.horizontal, state.vertical, state.cost,
                       output.result_h, output.result_v)

\* horizontal and vertical are each the transpose of the other: a
\* non-increasing sequence of positive degrees and its conjugate
Consistent(horizontal, vertical) ==
    /\ horizontal # <<>>
    /\ \A i \in DOMAIN horizontal : horizontal[i] > 0
    /\ \A i \in DOMAIN horizontal : \A j \in DOMAIN horizontal :
          i < j => horizontal[i] >= horizontal[j]
    /\ vertical = Transpose(horizontal, horizontal[1])

\* C26: on mutually consistent inputs with cost |expected - actual|,
\* fit_cdf_seq returns exactly (horizontal, vertical).
C26_ConsistentInputsReturned ==
    (output.called /\ state.cost = "abs" /\ Consistent(state.horizontal, state.vertical))
        => /\ output.panic = "none"
           /\ output.result_h = state.horizontal
           /\ output.result_v = state.vertical

C26_Witness ==
    /\ output.called /\ state.cost = "abs"
    /\ Consistent(state.horizontal, state.vertical)
    /\ state.horizontal = test_fit1.horizontal
    /\ output.result_h = <<10, 4, 2, 1, 1>>
    /\ output.result_v = <<5, 3, 2, 2, 1, 1, 1, 1, 1, 1>>

\* C27: fit_cdf_seq on the singletons horizontal = [0], vertical = [0]
\* returns ([0], [0]).
C27_SingletonsReturnSingletons ==
    (output.called /\ state.horizontal = <<0>> /\ state.vertical = <<0>>)
        => /\ output.panic = "none"
           /\ output.result_h = <<0>>
           /\ output.result_v = <<0>>

\* what the code returns on the singletons: two empty vectors
SingletonsReturnEmpty ==
    (output.called /\ state.horizontal = <<0>> /\ state.vertical = <<0>>)
        => /\ output.panic = "none"
           /\ output.result_h = <<>>
           /\ output.result_v = <<>>

\* C28: an empty horizontal or an empty vertical fails an assertion before
\* any search: the call panics and dists has no entry.
C28_EmptyInputIsFatal ==
    (output.called /\ (state.horizontal = <<>> \/ state.vertical = <<>>))
        => /\ panicked
           /\ output.panic = "assertion failed"
           /\ emitted = <<>>

C28_Witness ==
    /\ output.called
    /\ state.horizontal = <<>> /\ state.vertical = <<2, 1>>
    /\ panicked

(***************************************************************************)
(* A measurement and its probe.  The records sent into the truth and synth *)
(* inputs are held by the dataflow until the worker steps; the probe       *)
(* reports quiescence when nothing is held.  `state` is [pending]: the     *)
(* batches sent and not yet applied, in order; `output` records whether    *)
(* the last Measurement::observe was made with batches pending.            *)
(***************************************************************************)
\* the number of batches the dataflow holds at most
MaxPending == 1
\* the batches sent into a measurement's inputs: one record each
ProbeBuffers == [1..1 -> Elems \X Deltas]

InitProbe ==
    /\ cells = <<0>>
    /\ shared = <<new(1, Elems)>>
    /\ ret = <<>>
    /\ state = [pending |-> <<>>]
    /\ emitted = <<>>
    /\ output = [observed |-> FALSE, pending |-> FALSE]
    /\ panicked = FALSE

\* the probe's answer: no update is pending
Quiescent == state.pending = <<>>

\* the caller sends a batch into the truth or the synth input
SendBatch ==
    /\ Len(state.pending) < MaxPending
    /\ \E side \in {"truth", "synth"} : \E buffer \in ProbeBuffers :
          state' = [pending |-> Append(state.pending, <<side, buffer>>)]
    /\ UNCHANGED <<cells, shared, ret, emitted, output, panicked>>

\* worker.step(): the operator of the oldest pending batch runs on it
WorkerStep ==
    /\ state.pending # <<>>
    /\ LET side == Head(state.pending)[1]
           buffer == Head(state.pending)[2]
       IN \E nz \in [Created(shared[1], buffer) -> Noise] :
            \E w \in {IF side = "truth" THEN measure_truth(World, 1, buffer, nz)
                                         ELSE measure_synth(World, 1, buffer, nz)} :
                /\ Bounded(w.shared)
                /\ shared' = w.shared
                /\ cells' = w.cells
    /\ state' = [pending |-> Tail(state.pending)]
    /\ UNCHANGED <<ret, emitted, output, panicked>>

\* Measurement::observe, called at any time: it borrows the state and
\* returns; it has no access to the probe
ObserveAnyTime ==
    /\ \E element \in Elems :
         \E n \in (IF element \in DOMAIN shared[1].measurements THEN {0} ELSE Noise) :
            \E w \in {observe(World, 1, element, n)} :
                /\ shared' = w.shared
                /\ cells' = w.cells
                /\ ret' = <<w.value>>
    /\ output' = [observed |-> TRUE, pending |-> ~Quiescent]
    /\ UNCHANGED <<state, emitted, panicked>>

NextProbe == SendBatch \/ WorkerStep \/ ObserveAnyTime

SpecProbe == InitProbe /\ [][NextProbe]_vars

\* C29: an observation made while truth or synth updates are pending aborts
\* the process instead of returning a value.
C29_ObserveBeforeQuiescenceIsFatal ==
    (output.observed /\ output.pending) => panicked

\* what the code does: an observation made with updates pending returns the
\* stored noisy count, computed from the updates applied so far
ObserveBeforeQuiescenceReturns ==
    (output.observed /\ output.pending) => (~panicked /\ Len(ret) = 1)

(***************************************************************************)
(* shave's decrement loop, iteration by iteration.                         *)
(***************************************************************************)
\* the retractions the decrement loop is run on
ShaveRetractions == {delta \in ShaveDeltas : delta < 0}

\* C30: in every iteration of shave's decrement loop, run on a reachable
\* stored weight w with width > 0, the slice index is floor((w - 1) / width)
\* and the emitted change is strictly negative.
C30_DecrementIndexIsFloor ==
    (ShaveLive /\ state.width > 0) =>
        \A d \in Elems : \A delta \in ShaveRetractions :
            LET w == StoredWeight(state, d)
                r == decrement(state.width, w, d, delta)
            IN \A j \in DOMAIN r.out :
                 LET before == w + SumWeights(SubSeq(r.out, 1, j - 1))
                 IN /\ r.out[j][1][2] = as_usize((before - 1) \div state.width)
                    /\ r.out[j][2] < 0

\* what the code does: the index is the quotient rounded toward zero, and
\* the change is 0 where that differs from the floor
DecrementIndexTruncates ==
    (ShaveLive /\ state.width > 0) =>
        \A d \in Elems : \A delta \in ShaveRetractions :
            LET w == StoredWeight(state, d)
                r == decrement(state.width, w, d, delta)
            IN \A j \in DOMAIN r.out :
                 LET before == w + SumWeights(SubSeq(r.out, 1, j - 1))
                 IN /\ r.out[j][1][2] = as_usize(TruncDiv(before - 1, state.width))
                    /\ (r.out[j][2] < 0
                          \/ (r.out[j][2] = 0 /\ before <= 0 /\ state.width >= 2))

(***************************************************************************)
(* Termination of shave's two loops.                                       *)
(***************************************************************************)
\* ceil(a / b) for a >= 0, b > 0
CeilDiv(a, b) == (a + b - 1) \div b

\* C31: for width > 0 and every reachable stored weight, an update (d, delta)
\* of either sign is processed with finitely many emissions, at most
\* ceil(|delta| / width) + 1.
C31_ShaveTerminates ==
    (ShaveLive /\ state.width > 0) =>
        \A u \in ShaveUpdates :
            LET r == shave_update(state, u[1], u[2])
            IN /\ ~r.state.spinning
               /\ Len(r.out) <= CeilDiv(Abs(u[2]), state.width) + 1

\* what the code does: the bound on the emissions holds for every update
\* whose loop ends, and a loop that does not end is a retraction at a stored
\* weight <= 0 with width >= 2
ShaveTerminatesAboveZero ==
    (ShaveLive /\ state.width > 0) =>
        \A u \in ShaveUpdates :
            LET r == shave_update(state, u[1], u[2])
            IN IF r.state.spinning
               THEN u[2] < 0 /\ state.width >= 2 /\ StoredWeight(r.state, u[1]) <= 0
               ELSE Len(r.out) <= CeilDiv(Abs(u[2]), state.width) + 1

(***************************************************************************)
(* One invocation of the Shave operator on the messages of several times.  *)
(* Each message (time, batch) is pushed to the MergeSorter of its time     *)
(* (shave.rs 24-29); then `sorters.drain()` yields the sorters in the      *)
(* iteration order of the HashMap, which the hasher's random keys decide:  *)
(* any order of the times.  `state` is the shave state; `output` is        *)
(* [before, messages, order]: the state before the last invocation, its    *)
(* messages in arrival order and the order of the drain; `emitted` is the  *)
(* sequence of <<time, slice>> given by it.                                *)
(***************************************************************************)
Times == {1, 2}
\* the widths of the operator
EpochWidths == {1, 2}
\* the weights of the records of a message
EpochDeltas == {-1, 1}
\* the greatest stored weight
MaxEpochWeight == 2
\* the number of messages of one invocation
MaxMessages == 2

\* the messages of one invocation: each a time and a batch of one record
EpochMessages ==
    UNION {[1..n -> Times \X [1..1 -> Elems \X EpochDeltas]] : n \in 1..MaxMessages}

\* the loop `while let Some((time, data)) = input.next()`: the sorter of
\* each time after the messages were pushed in arrival order
RECURSIVE push_messages(_, _)
push_messages(sorters, messages) ==
    IF messages = <<>> THEN sorters
    ELSE LET time == Head(messages)[1]
             queue == IF time \in DOMAIN sorters THEN sorters[time] ELSE <<>>
         IN push_messages((time :> push(queue, Head(messages)[2])) @@ sorters,
                          Tail(messages))

\* the slices of one time, each with its time
Stamp(time, out) == [j \in DOMAIN out |-> <<time, out[j]>>]

\* the loop `for (time, mut data) in sorters.drain()`, the sorters taken in
\* the order `order`
RECURSIVE drain(_, _, _)
drain(st, sorters, order) ==
    IF order = <<>> THEN [state |-> st, out |-> <<>>, panic |-> FALSE]
    ELSE LET time == Head(order)
             dataz == finish_into(sorters[time], <<>>)
             r == shave_batch(st, Flatten(dataz))
         IN IF r.panic \/ r.state.spinning
            THEN [r EXCEPT !.out = Stamp(time, r.out)]
            ELSE LET rest == drain(r.state, sorters, Tail(order))
                 IN [rest EXCEPT !.out = Stamp(time, r.out) \o @]

\* the orders in which a HashMap with the keys `times` can be drained
DrainOrders(times) ==
    {order \in [1..Cardinality(times) -> times] :
        \A i \in DOMAIN order : \A j \in DOMAIN order : i # j => order[i] # order[j]}

\* an invocation that applies the messages one by one as they arrive
RECURSIVE shave_invocation_unsorted(_, _, _)
shave_invocation_unsorted(st, messages, order) ==
    IF messages = <<>> THEN [state |-> st, out |-> <<>>, panic |-> FALSE]
    ELSE LET r == shave_batch(st, Head(messages)[2])
         IN IF r.panic \/ r.state.spinning
            THEN [r EXCEPT !.out = Stamp(Head(messages)[1], r.out)]
            ELSE LET rest == shave_invocation_unsorted(r.state, Tail(messages), order)
                 IN [rest EXCEPT !.out = Stamp(Head(messages)[1], r.out) \o @]

\* the closure of shave, run once
shave_invocation(st, messages, order) ==
    drain(st, push_messages(<<>>, messages), order)

InitEpochs ==
    /\ state \in {[width |-> w, weight |-> <<>>, spinning |-> FALSE] : w \in EpochWidths}
    /\ emitted = <<>>
    /\ output = [before |-> <<>>, messages |-> <<>>, order |-> <<>>]
    /\ panicked = FALSE
    /\ MeasureIdle

ShaveInvocation ==
    /\ ~panicked
    /\ ~state.spinning
    /\ \E messages \in EpochMessages :
         \E order \in DrainOrders({messages[i][1] : i \in DOMAIN messages}) :
            \E r \in {shave_invocation(state, messages, order)} :
                /\ \A d \in DOMAIN r.state.weight : Abs(r.state.weight[d]) <= MaxEpochWeight
                /\ state' = r.state
                /\ emitted' = r.out
                /\ output' = [before |-> state, messages |-> messages, order |-> order]
                /\ panicked' = r.panic
    /\ UNCHANGED measureVars

NextEpochs == ShaveInvocation

SpecEpochs == InitEpochs /\ [][NextEpochs]_vars

\* the arrival orders of the messages of an invocation
Arrivals(messages) ==
    {[i \in DOMAIN messages |-> messages[p[i]]] : p \in DrainOrders(DOMAIN messages)}

\* the net weight the messages carry for datum d at time t
RECURSIVE NetDelta(_, _, _)
NetDelta(messages, t, d) ==
    IF messages = <<>> THEN 0
    ELSE (IF Head(messages)[1] = t
          THEN SumWeights(SelectSeq(Head(messages)[2], LAMBDA rec : rec[1] = d))
          ELSE 0) + NetDelta(Tail(messages), t, d)

\* C32: the slices of an invocation do not depend on the arrival order of
\* its messages: every permutation of them gives the same slices under the
\* same times, and a datum whose updates of one time cancel has no slice
\* under that time.
C32_ShaveBatchOrderInsensitive ==
    output.messages # <<>> =>
        /\ \A arrival \in Arrivals(output.messages) :
              shave_invocation(output.before, arrival, output.order).out = emitted
        /\ \A t \in Times : \A d \in Elems :
              NetDelta(output.messages, t, d) = 0 =>
                  \A j \in DOMAIN emitted :
                      ~(emitted[j][1] = t /\ emitted[j][2][1][1] = d)

\* two messages of one time arrived with the greater datum first and were
\* applied smaller datum first
C32_Witness ==
    /\ Len(output.messages) = 2
    /\ output.messages[1][1] = output.messages[2][1]
    /\ output.messages[1][2][1][1] = 2 /\ output.messages[2][2][1][1] = 1
    /\ Len(emitted) = 2
    /\ emitted[1][2][1][1] = 1 /\ emitted[2][2][1][1] = 2

\* two updates of one datum and one time cancelled and nothing was given
ShaveCancelWitness ==
    /\ Len(output.messages) = 2
    /\ output.messages[1][1] = output.messages[2][1]
    /\ output.messages[1][2][1][1] = output.messages[2][2][1][1]
    /\ NetDelta(output.messages, output.messages[1][1], output.messages[1][2][1][1]) = 0
    /\ emitted = <<>>

\* the times of a drain order are increasing
Increasing(order) == \A i \in DOMAIN order : \A j \in DOMAIN order : i < j => order[i] < order[j]

\* C33: when one invocation receives messages of several times, the
\* sorters are applied in increasing order of time: the slices given are
\* those of the drain in increasing order.
C33_EpochsAppliedInOrder ==
    output.messages # <<>> =>
        \A order \in DrainOrders({output.messages[i][1] : i \in DOMAIN output.messages}) :
            Increasing(order) =>
                emitted = shave_invocation(output.before, output.messages, order).out

\* what the code does: the slices are those of the drain in some order of
\* the times
EpochsAppliedInSomeOrder ==
    output.messages # <<>> =>
        \E order \in DrainOrders({output.messages[i][1] : i \in DOMAIN output.messages}) :
            emitted = shave_invocation(output.before, output.messages, order).out

(***************************************************************************)
(* The value lists of the join state.                                      *)
(***************************************************************************)
\* sorted by value, one entry per value, no entry of weight 0
Consolidated(list) ==
    /\ \A i \in DOMAIN list : \A j \in DOMAIN list :
          i < j => ValRank[list[i][1]] < ValRank[list[j][1]]
    /\ \A i \in DOMAIN list : list[i][2] # 0

\* C34: in every reachable join state both value lists of every key are
\* consolidated: sorted by value, at most one entry per value, no entry of
\* weight 0.
C34_JoinListsConsolidated ==
    \A key \in DOMAIN state :
        Consolidated(state[key][1]) /\ Consolidated(state[key][2])

\* a key whose only value was cancelled: its entry is left with two empty
\* lists (an entry is created by an update, which puts a value in a list)
C34_Witness ==
    \E key \in DOMAIN state : state[key] = <<<<>>, <<>>>>

(***************************************************************************)
(* Two schedules of one measurement side by side: each run has its own     *)
(* accumulator and state, and its truth sink and synth sink are invoked    *)
(* in any order on batches of any grouping.  laplace() returns the same    *)
(* value for the same element in both runs.                                *)
(***************************************************************************)
InitSchedules ==
    /\ cells = <<0, 0>>
    /\ shared = <<new(1, Elems), new(2, Elems)>>
    /\ ret = <<>>
    /\ JoinIdle

\* the weight held by each run is within the bound
BoundedSchedules(sh) == \A r \in DOMAIN sh : Mass(sh[r]) <= MaxMass

\* one invocation of the truth sink of run r
ScheduleTruth ==
    \E r \in DOMAIN shared :
        \E buffer \in Buffers(Elems) :
            \E nz \in [Created(shared[r], buffer) -> PairNoise] :
                \E w \in {measure_truth(World, r, buffer, nz)} :
                    /\ BoundedSchedules(w.shared)
                    /\ SameDraws(w.shared)
                    /\ shared' = w.shared
                    /\ cells' = w.cells
                    /\ UNCHANGED ret
                    /\ UNCHANGED joinVars

\* one invocation of the synth sink of run r
ScheduleSynth ==
    \E r \in DOMAIN shared :
        \E buffer \in Buffers(Elems) :
            \E nz \in [Created(shared[r], buffer) -> PairNoise] :
                \E w \in {measure_synth(World, r, buffer, nz)} :
                    /\ BoundedSchedules(w.shared)
                    /\ SameDraws(w.shared)
                    /\ shared' = w.shared
                    /\ cells' = w.cells
                    /\ UNCHANGED ret
                    /\ UNCHANGED joinVars

NextSchedules == ScheduleTruth \/ ScheduleSynth

SpecSchedules == InitSchedules /\ [][NextSchedules]_vars

\* the sums of the truth and of the synth updates delivered for element d
TruthSum(ms, d) == IF d \in DOMAIN ms.truth_sum THEN ms.truth_sum[d] ELSE 0
SynthSum(ms, d) == IF d \in DOMAIN ms.measurements THEN ms.measurements[d][1] ELSE 0

\* the two schedules have delivered updates of the same sums
SameDelivered ==
    \A d \in Elems :
        /\ TruthSum(shared[1], d) = TruthSum(shared[2], d)
        /\ SynthSum(shared[1], d) = SynthSum(shared[2], d)

\* C35: two schedules that delivered the same updates, in any order,
\* interleaving and grouping into batches, with the same noise draws, hold
\* the same accumulator E and the same entry for every element both hold.
C35_ScheduleInsensitive ==
    SameDelivered =>
        /\ cells[1] = cells[2]
        /\ \A d \in DOMAIN shared[1].measurements \cap DOMAIN shared[2].measurements :
              shared[1].measurements[d] = shared[2].measurements[d]

\* both runs were handed truth and synth updates of the same sums, one of
\* them with updates that cancelled across batches (it holds an entry the
\* other does not), and E is not 0
C35_Witness ==
    /\ SameDelivered
    /\ cells[1] # 0
    /\ DOMAIN shared[1].measurements # DOMAIN shared[2].measurements
    /\ \E d \in Elems : TruthSum(shared[1], d) # 0
    /\ \E d \in Elems : SynthSum(shared[1], d) # 0

(***************************************************************************)
(* The run stack of a MergeSorter.                                         *)
(***************************************************************************)
\* every run has fewer chunks than half (integer division) the chunks of
\* the run below it
StackOrdered(queue) ==
    \A i \in 1..(Len(queue) - 1) : Len(queue[i + 1]) < Len(queue[i]) \div 2

\* C36: after every push, each run of the stack has strictly fewer chunks
\* than half the chunks of the run below it, and pushing an empty batch
\* leaves the stack unchanged.
C36_RunStackHalves ==
    /\ StackOrdered(state.queue)
    /\ push(state.queue, <<>>) = state.queue

\* a stack of two runs, the upper of one chunk
C36_Witness ==
    /\ Len(state.queue) = 2
    /\ Len(state.queue[2]) = 1
    /\ Len(state.queue[1]) >= 4

\* strictly increasing by datum, no record of weight 0
RunConsolidated(records) ==
    /\ \A i \in DOMAIN records : \A j \in DOMAIN records :
          i < j => SorterRank[records[i][1]] < SorterRank[records[j][1]]
    /\ \A i \in DOMAIN records : records[i][2] # 0

\* C37: every run held by the sorter and every run merge_by produces is
\* strictly increasing by datum over all its chunks and has no record of
\* weight 0; merging two runs adds the weights of a datum both hold and
\* omits it when the sum is 0.
C37_RunsStrictlyIncreasing ==
    /\ \A i \in DOMAIN state.queue : RunConsolidated(Flatten(state.queue[i]))
    /\ RunConsolidated(Flatten(emitted))
    /\ Len(state.queue) > 1 =>
          LET list1 == state.queue[Len(state.queue)]
              list2 == state.queue[Len(state.queue) - 1]
              merged == Flatten(merge_by(list1, list2))
          IN /\ RunConsolidated(merged)
             /\ merged = consolidate(Flatten(list1) \o Flatten(list2), SorterRank)

\* two runs on the stack hold one datum with opposite weights (their merge
\* omits it) and another datum with weights that add up
C37_Witness ==
    /\ Len(state.queue) = 2
    /\ \E i \in DOMAIN Flatten(state.queue[1]) : \E j \in DOMAIN Flatten(state.queue[2]) :
          /\ Flatten(state.queue[1])[i][1] = Flatten(state.queue[2])[j][1]
          /\ Flatten(state.queue[1])[i][2] + Flatten(state.queue[2])[j][2] = 0
    /\ Len(Flatten(merge_by(state.queue[2], state.queue[1])))
          = Len(Flatten(state.queue[1])) - 1

(***************************************************************************)
(* Failures and shape of the result of fit_cdf_seq.                        *)
(***************************************************************************)
\* C38: for non-empty inputs of non-negative integers and a non-negative
\* cost, fit_cdf_seq returns a result without failure.
C38_FitAlwaysReturns ==
    (output.called /\ state.horizontal # <<>> /\ state.vertical # <<>>)
        => output.panic = "none"

\* what the code does: on non-empty inputs the call fails exactly when an
\* input holds a value greater than the length of the other input (index
\* out of bounds), or when the build checks overflow and the backward walk
\* comes to a point with x = 0 below max_y; the search always reaches
\* (max_x, 0) and the walk always finds a predecessor
FitFailures ==
    (output.called /\ state.horizontal # <<>> /\ state.vertical # <<>>) =>
        /\ output.panic \in {"none", "index out of bounds",
                              "attempt to subtract with overflow"}
        /\ output.panic = "index out of bounds"
              <=> \/ MaxOrZero(state.vertical) > Len(state.horizontal)
                  \/ MaxOrZero(state.horizontal) > Len(state.vertical)
        /\ output.panic = "attempt to subtract with overflow" => state.build = "debug"

\* C39: the result of fit_cdf_seq is a staircase: result_h has length max_x
\* and result_v length max_y, the backward walk writes every entry exactly
\* once, result_h is non-increasing with values in 0..max_y and result_v is
\* non-increasing with values in 0..max_x.
C39_ResultIsStaircase ==
    FitReturned =>
        LET max_x == MaxOrZero(state.vertical)
            max_y == MaxOrZero(state.horizontal)
            rh == output.result_h
            rv == output.result_v
        IN /\ Len(rh) = max_x /\ Len(rv) = max_y
           /\ \A i \in DOMAIN output.writes_h : output.writes_h[i] = 1
           /\ \A i \in DOMAIN output.writes_v : output.writes_v[i] = 1
           /\ DOMAIN output.writes_h = DOMAIN rh /\ DOMAIN output.writes_v = DOMAIN rv
           /\ \A i \in DOMAIN rh : rh[i] \in 0..max_y
           /\ \A i \in DOMAIN rv : rv[i] \in 0..max_x
           /\ \A i \in DOMAIN rh : \A j \in DOMAIN rh : i < j => rh[i] >= rh[j]
           /\ \A i \in DOMAIN rv : \A j \in DOMAIN rv : i < j => rv[i] >= rv[j]

\* a returned staircase of two columns and two rows that is not the inputs
C39_Witness ==
    /\ FitReturned
    /\ Len(output.result_h) = 2 /\ Len(output.result_v) = 2
    /\ output.result_h[1] > output.result_h[2]
    /\ output.result_h # state.horizontal
====
